---- MODULE Spec2Model ----
(***************************************************************************)
(* Model of the lesson-generation service of nous-core: the pipeline task  *)
(* generate_lesson_task, the progress store progress_tracker, the          *)
(* ConnectionManager registry of streaming connections, the HTTP handlers  *)
(* that read, consume and cancel a session, and the document extraction    *)
(* and repair code of services/gemini.py.                                  *)
(*                                                                         *)
(* The process runs one cooperative event loop: a handler or task runs     *)
(* without interruption until it awaits something that really suspends.    *)
(* The variable cur holds the session whose task is between two such       *)
(* suspensions (0 when the loop is free to run anything).                  *)
(***************************************************************************)
EXTENDS Integers, Sequences, FiniteSets, TLC

\* ------------------------------------------------------------------ bounds
\* The streaming connections opened during the run, numbered in the order their
\* handshakes complete.
NumSockets == 2
Sockets == 1..NumSockets

\* The model follows one generation session. Other sessions share nothing with it but
\* the event loop and the temp/ directory, which any call of cleanup() empties.
Sessions == {1}

\* ------------------------------------------------------- JSON values
\* A parsed JSON value carries its Python type in the field j.
JStr(s) == [j |-> "str", s |-> s]
JNum(n) == [j |-> "num", n |-> n]
JArr(a) == [j |-> "arr", a |-> a]
JObj(o) == [j |-> "obj", o |-> o]
JNull == [j |-> "null"]

IsDict(v) == v.j = "obj"
IsList(v) == v.j = "arr"
\* dict.get(k): the value, or None.
Get(o, k) == IF k \in DOMAIN o THEN o[k] ELSE JNull
\* node.get('type') == t
TypeIs(o, t) == Get(o, "type") = JStr(t)
SetKey(o, k, v) == [x \in DOMAIN o \cup {k} |-> IF x = k THEN v ELSE o[x]]
\* for field, default in required_fields.items(): if field not in node: node[field] = default
Backfill(o, defaults) ==
    [x \in DOMAIN o \cup DOMAIN defaults |-> IF x \in DOMAIN o THEN o[x] ELSE defaults[x]]
\* str(v): a string is itself, anything else its printed form.
PyStr(v) == IF v.j = "str" THEN v ELSE JStr("repr")
\* What a for loop over v visits: the entries of a list; a string or a dict
\* yields characters or keys, which are strings; a number or None is not iterable.
IsIterable(v) == v.j \in {"arr", "str", "obj"}
Items(v) == IF v.j = "arr" THEN v.a ELSE IF v.j = "obj" THEN <<JStr("key")>> ELSE <<JStr("c")>>

\* --------------------------------------------- services/gemini.py: repair
TextDefaults ==
    [type |-> JStr("text"), version |-> JNum(1), detail |-> JNum(0), format |-> JNum(0),
     mode |-> JStr("normal"), style |-> JStr(""), text |-> JStr("")]

fix_text_node_structure(node) ==
    LET n == Backfill(node, TextDefaults)
    IN  IF n["text"].j # "str" THEN SetKey(n, "text", PyStr(n["text"])) ELSE n

ensure_required_fields(node) ==
    LET n == Backfill(node, [version |-> JNum(1)])
    IN  IF Get(n, "type") \in {JStr("paragraph"), JStr("heading"), JStr("list"), JStr("listitem")}
        THEN Backfill(n, [direction |-> JStr("ltr"), format |-> JStr(""), indent |-> JNum(0)])
        ELSE n

ListItemDefaults ==
    [type |-> JStr("listitem"), version |-> JNum(1), direction |-> JStr("ltr"),
     format |-> JStr(""), indent |-> JNum(0), value |-> JNum(1)]

\* The exception the loop over a listitem's children raises first ("none" if none):
\* child.get on a child that is not a dict is an AttributeError, extend() with
\* something that is not iterable a TypeError.
RECURSIVE ListItemChildrenExc(_)
ListItemChildrenExc(cs) ==
    IF cs = <<>> THEN "none"
    ELSE LET c == Head(cs)
         IN  IF ~IsDict(c) THEN "AttributeError"
             ELSE IF TypeIs(c.o, "paragraph") /\ "children" \in DOMAIN c.o
                     /\ ~IsIterable(c.o["children"])
                  THEN "TypeError"
                  ELSE ListItemChildrenExc(Tail(cs))

RECURSIVE ListItemChildren(_)
ListItemChildren(cs) ==
    IF cs = <<>> THEN <<>>
    ELSE LET c == Head(cs)
         IN  IF TypeIs(c.o, "paragraph") /\ "children" \in DOMAIN c.o
             THEN Items(c.o["children"]) \o ListItemChildren(Tail(cs))
             ELSE IF TypeIs(c.o, "text")
                  THEN <<JObj(fix_text_node_structure(c.o))>> \o ListItemChildren(Tail(cs))
                  ELSE ListItemChildren(Tail(cs))

fix_list_item_structure_exc(node) ==
    IF "children" \notin DOMAIN node THEN "none"
    ELSE IF ~IsIterable(node["children"]) THEN "TypeError"
    ELSE ListItemChildrenExc(Items(node["children"]))

fix_list_item_structure(node) ==
    LET n == Backfill(node, ListItemDefaults)
    IN  IF "children" \in DOMAIN n
        THEN SetKey(n, "children", JArr(ListItemChildren(Items(n["children"]))))
        ELSE n

ListDefaults ==
    [type |-> JStr("list"), version |-> JNum(1), direction |-> JStr("ltr"),
     format |-> JStr(""), indent |-> JNum(0), start |-> JNum(1)]

RECURSIVE ListChildrenExc(_)
ListChildrenExc(cs) ==
    IF cs = <<>> THEN "none"
    ELSE LET c == Head(cs)
         IN  IF ~IsDict(c) THEN "AttributeError"
             ELSE IF TypeIs(c.o, "listitem") /\ fix_list_item_structure_exc(c.o) # "none"
                  THEN fix_list_item_structure_exc(c.o)
                  ELSE ListChildrenExc(Tail(cs))

SyntheticListItem(child) ==
    [type |-> JStr("listitem"), version |-> JNum(1), direction |-> JStr("ltr"),
     format |-> JStr(""), indent |-> JNum(0), value |-> JNum(1),
     children |-> JArr(<<JObj(fix_text_node_structure(
                        [type |-> JStr("text"), text |-> PyStr(child)]))>>)]

RECURSIVE ListChildren(_)
ListChildren(cs) ==
    IF cs = <<>> THEN <<>>
    ELSE LET c == Head(cs)
         IN  (IF ~TypeIs(c.o, "listitem")
              THEN <<JObj(SyntheticListItem(c))>>
              ELSE <<JObj(fix_list_item_structure(c.o))>>) \o ListChildren(Tail(cs))

fix_list_structure_exc(node) ==
    IF "children" \notin DOMAIN node THEN "none"
    ELSE IF ~IsIterable(node["children"]) THEN "TypeError"
    ELSE ListChildrenExc(Items(node["children"]))

\* Mutation of fix_list_structure: a numbered list is made a bullet list too.
fix_list_structure_bullet_only(node) ==
    LET n0 == Backfill(node, ListDefaults)
        n1 == IF Get(n0, "listType") = JStr("bullet") THEN SetKey(n0, "tag", JStr("ul"))
              ELSE SetKey(SetKey(n0, "listType", JStr("bullet")), "tag", JStr("ul"))
    IN  IF "children" \in DOMAIN n1
        THEN SetKey(n1, "children", JArr(ListChildren(Items(n1["children"]))))
        ELSE n1

fix_list_structure(node) ==
    LET n0 == Backfill(node, ListDefaults)
        n1 == IF Get(n0, "listType") = JStr("bullet") THEN SetKey(n0, "tag", JStr("ul"))
              ELSE IF Get(n0, "listType") = JStr("number") THEN SetKey(n0, "tag", JStr("ol"))
              ELSE SetKey(SetKey(n0, "listType", JStr("bullet")), "tag", JStr("ul"))
    IN  IF "children" \in DOMAIN n1
        THEN SetKey(n1, "children", JArr(ListChildren(Items(n1["children"]))))
        ELSE n1

\* One pass of the loop body of validate_lexical_structure over a dict node.
RenameAlias(node) == IF TypeIs(node, "listItem") THEN SetKey(node, "type", JStr("listitem")) ELSE node

ValidateNodeExc(node) ==
    LET n == RenameAlias(node)
    IN  IF TypeIs(n, "listitem") THEN fix_list_item_structure_exc(n)
        ELSE IF TypeIs(n, "list") THEN fix_list_structure_exc(n)
        ELSE "none"

ValidateNode(node) ==
    LET n0 == RenameAlias(node)
        n1 == IF TypeIs(n0, "listitem") THEN fix_list_item_structure(n0) ELSE n0
        n2 == IF TypeIs(n1, "list") THEN fix_list_structure(n1) ELSE n1
        n3 == IF TypeIs(n2, "text") THEN fix_text_node_structure(n2) ELSE n2
    IN  ensure_required_fields(n3)

RECURSIVE ValidateNodesExc(_)
ValidateNodesExc(ns) ==
    IF ns = <<>> THEN "none"
    ELSE IF IsDict(Head(ns)) /\ ValidateNodeExc(Head(ns).o) # "none"
         THEN ValidateNodeExc(Head(ns).o)
         ELSE ValidateNodesExc(Tail(ns))

RECURSIVE ValidateNodes(_)
ValidateNodes(ns) ==
    IF ns = <<>> THEN <<>>
    ELSE (IF IsDict(Head(ns)) THEN <<JObj(ValidateNode(Head(ns).o))>> ELSE <<>>)
         \o ValidateNodes(Tail(ns))

\* The array validate_lexical_structure walks: data, or data['children'].
Unwrapped(data) == IF IsList(data) THEN data ELSE data.o["children"]

\* The exception validate_lexical_structure raises on data ("none" if it returns).
validate_lexical_structure_exc(data) ==
    IF ~IsList(data) /\ ~(IsDict(data) /\ "children" \in DOMAIN data.o) THEN "ValueError"
    ELSE IF ~IsIterable(Unwrapped(data)) THEN "TypeError"
    ELSE ValidateNodesExc(Items(Unwrapped(data)))

\* The list validate_lexical_structure returns when it raises nothing.
validate_lexical_structure(data) == ValidateNodes(Items(Unwrapped(data)))

TextNode(t) ==
    JObj([type |-> JStr("text"), version |-> JNum(1), detail |-> JNum(0), format |-> JNum(0),
          mode |-> JStr("normal"), style |-> JStr(""), text |-> JStr(t)])

create_fallback_lesson_structure ==
    << JObj([type |-> JStr("heading"), version |-> JNum(1), direction |-> JStr("ltr"),
             format |-> JStr(""), indent |-> JNum(0), tag |-> JStr("h1"),
             children |-> JArr(<<TextNode("Lesson Content")>>)]),
       JObj([type |-> JStr("paragraph"), version |-> JNum(1), direction |-> JStr("ltr"),
             format |-> JStr(""), indent |-> JNum(0), textFormat |-> JNum(0),
             textStyle |-> JStr(""),
             children |-> JArr(<<TextNode("The lesson content could not be properly parsed from the PDF.")>>)]) >>

\* ------------------------------------- services/gemini.py: pdf_to_lexical
\* What one call of client.models.generate_content gives: it raises, or it returns
\* text that json.loads rejects ("garbage"), or text that parses to a JSON value.
Raised(e) == [kind |-> "raise", exc |-> e]
Garbage == [kind |-> "garbage"]
Text(v) == [kind |-> "text", parsed |-> v]

PartialText(t) == JObj([type |-> JStr("text"), text |-> JStr(t)])
NodesMissingFields ==
    << JObj([type |-> JStr("heading"), tag |-> JStr("h2"), children |-> JArr(<<PartialText("Intro")>>)]),
       JObj([type |-> JStr("paragraph"), children |-> JArr(<<PartialText("Body")>>)]) >>
DocPlain == JArr(NodesMissingFields)
DocWrapped == JObj([children |-> JArr(NodesMissingFields)])
DocList ==
    JArr(<< JObj([type |-> JStr("list"), listType |-> JStr("number"),
                  children |-> JArr(<< JObj([type |-> JStr("listItem"),
                                             children |-> JArr(<<PartialText("one")>>)]) >>)]) >>)
DocScalar == JStr("no lesson here")
DocObjNoChildren == JObj([root |-> JArr(NodesMissingFields)])
DocNonObjEntries == JArr(<<JStr("{'type': 'paragraph'}"), JNum(7)>>)
DocEmpty == JArr(<<>>)
DocListStrChild ==
    JArr(<< JObj([type |-> JStr("list"), listType |-> JStr("bullet"),
                  children |-> JArr(<<JStr("item one")>>)]) >>)
DocNumChildren == JObj([children |-> JNum(3)])

ParsedDocs ==
    {DocPlain, DocWrapped, DocScalar, DocObjNoChildren, DocNonObjEntries, DocEmpty,
     DocListStrChild, DocNumChildren}
\* The outputs the spec calls malformed: they parse (or not) but are no usable document.
MalformedResponses ==
    {Garbage} \cup {Text(d) : d \in {DocScalar, DocObjNoChildren, DocNonObjEntries, DocEmpty,
                                     DocListStrChild, DocNumChildren}}
Responses ==
    {Text(d) : d \in ParsedDocs} \cup {Garbage}
    \cup {Raised(e) : e \in {"ServerError", "QuotaExceeded", "ConnectionError"}}

\* How the history names a call of the extraction collaborator: by what came back.
ResponseLabel(r) ==
    IF r \in MalformedResponses THEN "extraction_malformed"
    ELSE IF r.kind = "raise" THEN "extraction_" \o r.exc
    ELSE "extraction_ok"
ExtractionLabels ==
    {"extraction_malformed", "extraction_ok", "extraction_ServerError",
     "extraction_QuotaExceeded", "extraction_ConnectionError"}

\* range(3), and the "attempt == 2" of the last attempt
MaxAttempts == 3
LastAttempt == 2

\* The exception the try body of one attempt raises ("none": it returns).
AttemptExc(r) ==
    IF r.kind = "raise" THEN r.exc
    ELSE IF r.kind = "garbage" THEN "JSONDecodeError"
    ELSE IF validate_lexical_structure_exc(r.parsed) # "none"
         THEN validate_lexical_structure_exc(r.parsed)
         ELSE IF Len(validate_lexical_structure(r.parsed)) = 0 THEN "ValueError" ELSE "none"

ParsingErrors == {"JSONDecodeError", "KeyError", "TypeError", "ValueError"}

MsgUnavailable == <<"Gemini AI service is currently unavailable. Please try again in a few minutes.">>
MsgQuota == <<"AI service quota exceeded. Please try again later.">>

\* Mutation of pdf_to_lexical_attempt: a quota failure is retried like a server error.
pdf_to_lexical_attempt_quota_retry(attempt, r) ==
    LET e == AttemptExc(r)
    IN  IF e = "none" THEN [kind |-> "return", value |-> validate_lexical_structure(r.parsed)]
        ELSE IF e \in {"ServerError", "QuotaExceeded"}
             THEN IF attempt = LastAttempt THEN [kind |-> "raise", msg |-> MsgUnavailable]
                  ELSE [kind |-> "continue"]
        ELSE IF e \in ParsingErrors
             THEN IF attempt = LastAttempt
                  THEN [kind |-> "return", value |-> create_fallback_lesson_structure]
                  ELSE [kind |-> "continue"]
        ELSE IF attempt = LastAttempt
             THEN [kind |-> "raise", msg |-> <<"AI processing failed after 3 attempts: ", e>>]
             ELSE [kind |-> "continue"]

\* One iteration of the loop of pdf_to_lexical: return a value, raise, or go round again.
pdf_to_lexical_attempt(attempt, r) ==
    LET e == AttemptExc(r)
    IN  IF e = "none" THEN [kind |-> "return", value |-> validate_lexical_structure(r.parsed)]
        ELSE IF e = "ServerError"
             THEN IF attempt = LastAttempt THEN [kind |-> "raise", msg |-> MsgUnavailable]
                  ELSE [kind |-> "continue"]
        ELSE IF e = "QuotaExceeded" THEN [kind |-> "raise", msg |-> MsgQuota]
        ELSE IF e \in ParsingErrors
             THEN IF attempt = LastAttempt
                  THEN [kind |-> "return", value |-> create_fallback_lesson_structure]
                  ELSE [kind |-> "continue"]
        ELSE IF attempt = LastAttempt
             THEN [kind |-> "raise", msg |-> <<"AI processing failed after 3 attempts: ", e>>]
             ELSE [kind |-> "continue"]

\* ------------------------------------------------------------ the state
VARIABLES
    progress_tracker,     \* api.py progress_tracker: session id -> record (a dict: partial)
    active_connections,   \* ConnectionManager.active_connections: session id -> socket
    ws,                   \* each socket: its session id and where its handler stands
    sent,                 \* the events the last step sent to a client, as (socket, event)
    task,                 \* each session: the position and locals of generate_lesson_task
    temp_files,           \* the sessions whose uploaded file is in temp/
    cur,                  \* the session whose task holds the event loop, or 0
    written,              \* history: the records update_progress wrote, per session
    calls,                \* history: the collaborator calls of each run, in order
    cancelled,            \* history: the sessions cancel_lesson_generation was called for
    consumed              \* history: the sessions whose result get_lesson_result returned

\* The state of the /finish/ call.
VARIABLES
    finish_request,       \* the FinishRequest body: lesson_data and selected_videos
    media_dir,            \* the files in media/
    finish_outcomes,      \* history: what the collaborators of the call answered
    upload_lesson_arg,    \* history: the documents passed to payload.upload_lesson
    lesson_store,         \* the lessons the lesson store saved
    finish_response,      \* the answer of the call
    runs                  \* the runs that share media/: position and audio_path of each

\* The state of the chat service.
VARIABLES
    sessions,             \* ChatbotService.sessions: id -> ChatSession
    http_turn,            \* the /api/chat/send call in flight: position and locals
    ws_turn,              \* the /ws/chat handler: position and locals
    client_ids,           \* the conversation ids the client was given back
    turns_left,           \* how many turns the client still sends, per channel
    chat_env,             \* how the client and the collaborators behave in this run
    chat_sent,            \* what the last step sent to the chat client
    added,                \* history: every add_message call, per session, in order
    fetches,              \* history: lesson-store fetches of the context, per session
    now                   \* datetime.now() of the chat service, in ticks

\* One call of validate_lexical_structure on its own.
VARIABLES
    lexical_data,         \* the argument of the call
    validated             \* how the call ended: not called, returned a list, raised

pipeline_vars == <<progress_tracker, active_connections, ws, sent, task, temp_files, cur,
                   written, calls, cancelled, consumed>>
finish_vars == <<finish_request, media_dir, finish_outcomes, upload_lesson_arg,
                 lesson_store, finish_response, runs>>
chat_vars == <<sessions, http_turn, ws_turn, client_ids, turns_left, chat_env, chat_sent,
               added, fetches, now>>
validator_vars == <<lexical_data, validated>>
vars == <<pipeline_vars, finish_vars, chat_vars, validator_vars>>

NotCalled == [called |-> FALSE]
NoResponse == [status |-> 0]
NoRequest == [lesson_data |-> <<>>, selected_videos |-> <<>>]

NoTurn == [pc |-> "idle"]
NoRuns == <<>>
NoWs == [pc |-> "closed", session_id |-> 0]

\* validate_lexical_structure is only called from the pipeline.
ValidatorIdle == lexical_data = JNull /\ validated = NotCalled

\* No chat client is in sight.
ChatIdle ==
    /\ sessions = <<>>
    /\ http_turn = NoTurn
    /\ ws_turn = NoWs
    /\ client_ids = {}
    /\ turns_left = [http |-> 0, ws |-> 0]
    /\ chat_env = "none"
    /\ chat_sent = <<>>
    /\ added = <<>>
    /\ fetches = <<>>
    /\ now = 0

\* No /finish/ call is in sight.
FinishIdle ==
    /\ finish_request = NoRequest
    /\ media_dir = {}
    /\ finish_outcomes = NotCalled
    /\ upload_lesson_arg = <<>>
    /\ lesson_store = <<>>
    /\ finish_response = NoResponse
    /\ runs = NoRuns

NoTask ==
    [pc |-> "none", attempt |-> 0, lexical_children |-> <<>>, narration |-> "",
     keywords |-> <<>>, youtube_videos |-> <<>>, audio_path |-> "None"]

PipelineInit ==
    /\ progress_tracker = <<>>
    /\ active_connections = <<>>
    /\ ws = [w \in Sockets |-> [state |-> "idle", sid |-> 0]]
    /\ sent = <<>>
    /\ task = [s \in Sessions |-> NoTask]
    /\ temp_files = {}
    /\ cur = 0
    /\ written = [s \in Sessions |-> <<>>]
    /\ calls = [s \in Sessions |-> <<>>]
    /\ cancelled = {}
    /\ consumed = {}

Init == PipelineInit /\ FinishIdle /\ ChatIdle /\ ValidatorIdle

DelKey(d, k) == [x \in DOMAIN d \ {k} |-> d[x]]

\* --------------------------------------------- api.py: ConnectionManager
\* ConnectionManager.disconnect: remove whatever is registered for the id.
disconnect(ac, session_id) == DelKey(ac, session_id)

\* send_json on a socket succeeds from its handshake until the client closes or is lost.
SocketOpen(w) == ws[w].state \in {"accepting", "open"}

\* Mutation of send_progress_update: a send that raises leaves the registry as it is.
send_progress_update_keep(ac, session_id, data) ==
    IF session_id \in DOMAIN ac /\ SocketOpen(ac[session_id])
    THEN /\ sent' = <<[to |-> ac[session_id], data |-> data]>>
         /\ active_connections' = ac
    ELSE /\ sent' = <<>>
         /\ active_connections' = ac

\* ConnectionManager.send_progress_update, called when the registry is ac: send_json
\* to the registered socket; a send that raises (the socket is closed) is caught and
\* the id is disconnected.
send_progress_update(ac, session_id, data) ==
    IF session_id \in DOMAIN ac
    THEN IF SocketOpen(ac[session_id])
         THEN /\ sent' = <<[to |-> ac[session_id], data |-> data]>>
              /\ active_connections' = ac
         ELSE /\ sent' = <<>>
              /\ active_connections' = disconnect(ac, session_id)
    ELSE /\ sent' = <<>>
         /\ active_connections' = ac

\* Mutation of update_progress: the record is pushed but not stored.
update_progress_unstored(session_id, stage, progress, message) ==
    LET progress_data == [stage |-> stage, progress |-> progress, message |-> message]
    IN  /\ progress_tracker' = progress_tracker
        /\ written' = [written EXCEPT ![session_id] = Append(@, progress_data)]
        /\ send_progress_update(active_connections, session_id, progress_data)

\* api.py update_progress: store the record, then push it.
update_progress(session_id, stage, progress, message) ==
    LET progress_data == [stage |-> stage, progress |-> progress, message |-> message]
    IN  /\ progress_tracker' = SetKey(progress_tracker, session_id, progress_data)
        /\ written' = [written EXCEPT ![session_id] = Append(@, progress_data)]
        /\ send_progress_update(active_connections, session_id, progress_data)

\* await send_json suspends the task only when there is a socket to send to.
AfterPush(s) == IF s \in DOMAIN active_connections THEN 0 ELSE s

MayRun(s) == cur \in {0, s}

\* A step of a task changes neither the sockets nor the HTTP side.
TaskFrame == UNCHANGED <<ws, cancelled, consumed, finish_vars, chat_vars, validator_vars>>

Title == "Algebra"
TitleLower == "algebra"
CourseId == 1

\* Clients name the session id process_pdf gave them: ids are not guessable.
Known(s) == task[s].pc \notin {"none", "rejected", "submit_failed"}

SetTask(s, t) == task' = [task EXCEPT ![s] = t]
Called(s, name) == calls' = [calls EXCEPT ![s] = Append(@, name)]

\* ------------------------------------------------- api.py: process_pdf
\* The form of a submission: the name of the uploaded file and the course_id field.
Filenames == {"notes.pdf", "notes.txt"}
CourseIdForms == {"1", "abc"}
Uploads == [filename : Filenames, course_id : CourseIdForms]
\* file.filename.endswith('.pdf')
EndsWithPdf(filename) == filename \in {"notes.pdf"}
\* int(course_id): the number, or ValueError (no number).
IntOf(text) == IF text = "1" THEN [ok |-> TRUE, value |-> CourseId] ELSE [ok |-> FALSE]

\* A file that is no PDF is answered 400 before anything is done. Otherwise the upload
\* is written to temp/ and the record (upload, 0) is stored under a fresh session id;
\* then int(course_id) raises, which lines 528-532 answer with 500, or the task is
\* queued as a background task and the session id is returned.
process_pdf(s, upload) ==
    /\ cur = 0
    /\ task[s].pc = "none"
    /\ IF ~EndsWithPdf(upload.filename)
       THEN /\ SetTask(s, [task[s] EXCEPT !.pc = "rejected"])
            /\ UNCHANGED <<temp_files, progress_tracker>>
       ELSE /\ temp_files' = temp_files \cup {s}
            /\ progress_tracker' = SetKey(progress_tracker, s,
                    [stage |-> "upload", progress |-> 0,
                     message |-> <<"PDF uploaded successfully">>])
            /\ SetTask(s, [task[s] EXCEPT !.pc = IF IntOf(upload.course_id).ok THEN "queued"
                                                  ELSE "submit_failed"])
    /\ sent' = <<>>
    /\ UNCHANGED <<active_connections, ws, cur, written, calls, cancelled, consumed>>
    /\ UNCHANGED <<finish_vars, chat_vars, validator_vars>>

\* ------------------------------------------ api.py: generate_lesson_task
\* line 89: the task starts.
TaskStart(s) ==
    /\ MayRun(s)
    /\ task[s].pc = "queued"
    /\ update_progress(s, "processing", 10, <<"Analyzing PDF content...">>)
    /\ SetTask(s, [task[s] EXCEPT !.pc = "open_pdf"])
    /\ cur' = AfterPush(s)
    /\ UNCHANGED <<temp_files, calls>>
    /\ TaskFrame

\* Mutation of ExtractionFailed: the error record resets the percentage to 0.
ExtractionFailed_zero(s, msg) ==
    /\ update_progress(s, "error", 0, <<"AI content analysis failed: ">> \o msg)
    /\ SetTask(s, [task[s] EXCEPT !.pc = "return"])
    /\ cur' = AfterPush(s)

\* Mutation of ExtractionFailed: the return after the error record is missing.
ExtractionFailed_continue(s, msg) ==
    /\ update_progress(s, "error", 100, <<"AI content analysis failed: ">> \o msg)
    /\ SetTask(s, [task[s] EXCEPT !.pc = "narration_start"])
    /\ cur' = AfterPush(s)

\* The except branch of lines 95-97, with the str(e) of what was raised.
ExtractionFailed(s, msg) ==
    /\ update_progress(s, "error", 100, <<"AI content analysis failed: ">> \o msg)
    /\ SetTask(s, [task[s] EXCEPT !.pc = "return"])
    /\ cur' = AfterPush(s)

\* gemini.py lines 24-25: pdf_to_lexical opens the uploaded file; a missing file
\* raises before any attempt.
pdf_to_lexical_open(s) ==
    /\ MayRun(s)
    /\ task[s].pc = "open_pdf"
    /\ IF s \in temp_files
       THEN /\ SetTask(s, [task[s] EXCEPT !.pc = "extract", !.attempt = 0])
            /\ cur' = s
            /\ sent' = <<>>
            /\ UNCHANGED <<progress_tracker, written, active_connections>>
       ELSE ExtractionFailed(s, <<"[Errno 2] No such file or directory">>)
    /\ UNCHANGED <<temp_files, calls>>
    /\ TaskFrame

\* gemini.py lines 28-89 and api.py lines 91-97: one attempt of pdf_to_lexical, and
\* what generate_lesson_task does when pdf_to_lexical returns or raises.
pdf_to_lexical_step(s) ==
    /\ MayRun(s)
    /\ task[s].pc = "extract"
    /\ task[s].attempt < MaxAttempts
    /\ \E r \in Responses :
         LET out == pdf_to_lexical_attempt(task[s].attempt, r)
         IN  /\ Called(s, ResponseLabel(r))
             /\ IF out.kind = "return"
                THEN /\ update_progress(s, "processing", 40, <<"PDF content analysis complete">>)
                     /\ SetTask(s, [task[s] EXCEPT !.pc = "narration_start",
                                                   !.lexical_children = out.value])
                     /\ cur' = AfterPush(s)
                ELSE IF out.kind = "raise"
                THEN ExtractionFailed(s, out.msg)
                ELSE /\ SetTask(s, [task[s] EXCEPT !.attempt = @ + 1])
                     /\ cur' = s
                     /\ sent' = <<>>
                     /\ UNCHANGED <<progress_tracker, written, active_connections>>
    /\ UNCHANGED temp_files
    /\ TaskFrame

\* line 100
TaskNarrationStart(s) ==
    /\ MayRun(s)
    /\ task[s].pc = "narration_start"
    /\ update_progress(s, "processing", 40, <<"Generating audio narration script...">>)
    /\ SetTask(s, [task[s] EXCEPT !.pc = "narration"])
    /\ cur' = AfterPush(s)
    /\ UNCHANGED <<temp_files, calls>>
    /\ TaskFrame

\* gemini.py lexical_to_narration: the text, or one of the three messages it raises.
NarrationOutcomes ==
    { [ok |-> TRUE, text |-> "narration text"],
      [ok |-> FALSE, msg |-> <<"AI narration service is temporarily unavailable">>],
      [ok |-> FALSE, msg |-> <<"AI service quota exceeded for narration generation">>],
      [ok |-> FALSE, msg |-> <<"Narration generation failed: ", "timeout">>] }

\* lines 101-106
TaskNarration(s) ==
    /\ MayRun(s)
    /\ task[s].pc = "narration"
    /\ Called(s, "narration")
    /\ \E o \in NarrationOutcomes :
         IF o.ok
         THEN /\ update_progress(s, "processing", 55, <<"Audio narration script generated">>)
              /\ SetTask(s, [task[s] EXCEPT !.pc = "keywords_start", !.narration = o.text])
         ELSE /\ update_progress(s, "error", 100,
                                 <<"Audio narration script generation failed: ">> \o o.msg)
              /\ SetTask(s, [task[s] EXCEPT !.pc = "return"])
    /\ cur' = AfterPush(s)
    /\ UNCHANGED temp_files
    /\ TaskFrame

\* Mutation of TaskKeywordsStart: the run goes to the video search without keywords.
TaskKeywordsStart_skip(s) ==
    /\ MayRun(s)
    /\ task[s].pc = "keywords_start"
    /\ update_progress(s, "processing", 55, <<"Extracting keywords...">>)
    /\ SetTask(s, [task[s] EXCEPT !.pc = "youtube"])
    /\ cur' = AfterPush(s)
    /\ UNCHANGED <<temp_files, calls>>
    /\ TaskFrame

\* line 108
TaskKeywordsStart(s) ==
    /\ MayRun(s)
    /\ task[s].pc = "keywords_start"
    /\ update_progress(s, "processing", 55, <<"Extracting keywords...">>)
    /\ SetTask(s, [task[s] EXCEPT !.pc = "keywords"])
    /\ cur' = AfterPush(s)
    /\ UNCHANGED <<temp_files, calls>>
    /\ TaskFrame

\* gemini.py get_keywords: the model's keywords, or, when the call or the parse of its
\* answer fails, the fallback it returns from its own except branch; it never raises.
KeywordsFallbackGemini == <<"education", "learning", "lesson">>
get_keywords(model_ok) ==
    IF model_ok THEN [raised |-> FALSE, value |-> <<"algebra", "equations">>]
    ELSE [raised |-> FALSE, value |-> KeywordsFallbackGemini]

\* lines 109-114
TaskKeywords(s) ==
    /\ MayRun(s)
    /\ task[s].pc = "keywords"
    /\ \E model_ok \in BOOLEAN :
         LET k == get_keywords(model_ok)
         IN  /\ Called(s, IF model_ok THEN "keywords" ELSE "keywords_failed")
             /\ IF ~k.raised
                THEN /\ update_progress(s, "processing", 70, <<"Keywords extracted successfully">>)
                     /\ SetTask(s, [task[s] EXCEPT !.pc = "youtube_start", !.keywords = k.value])
                ELSE /\ update_progress(s, "processing", 70, <<"Keywords extracted (fallback)">>)
                     /\ SetTask(s, [task[s] EXCEPT !.pc = "youtube_start",
                                       !.keywords = <<"education", "learning", TitleLower>>])
    /\ cur' = AfterPush(s)
    /\ UNCHANGED temp_files
    /\ TaskFrame

\* line 117
TaskYoutubeStart(s) ==
    /\ MayRun(s)
    /\ task[s].pc = "youtube_start"
    /\ update_progress(s, "youtube", 70, <<"Searching for relevant videos...">>)
    /\ SetTask(s, [task[s] EXCEPT !.pc = "youtube"])
    /\ cur' = AfterPush(s)
    /\ UNCHANGED <<temp_files, calls>>
    /\ TaskFrame

\* youtube.py search_videos: a list of videos (perhaps empty), or it raises.
Video(n) == [videoId |-> n, url |-> <<"https://www.youtube.com/watch?v=", n>>]
SearchOutcomes ==
    { [ok |-> TRUE, videos |-> <<>>],
      [ok |-> TRUE, videos |-> <<Video("a"), Video("b")>>],
      [ok |-> FALSE] }

\* lines 118-123
TaskYoutube(s) ==
    /\ MayRun(s)
    /\ task[s].pc = "youtube"
    /\ \E o \in SearchOutcomes :
         /\ Called(s, IF o.ok THEN "search" ELSE "search_failed")
         /\ IF o.ok
            THEN /\ update_progress(s, "youtube", 80,
                        <<"Found ", ToString(Len(o.videos)), " educational videos">>)
                 /\ SetTask(s, [task[s] EXCEPT !.pc = "tts_start", !.youtube_videos = o.videos])
            ELSE /\ update_progress(s, "youtube", 80, <<"Video search completed (0 found or error)">>)
                 /\ SetTask(s, [task[s] EXCEPT !.pc = "tts_start", !.youtube_videos = <<>>])
    /\ cur' = AfterPush(s)
    /\ UNCHANGED temp_files
    /\ TaskFrame

\* lines 126-133: the record is written, then the task awaits etts.text_to_mp3, and
\* that await suspends it whether or not anyone listens.
TaskTtsStart(s) ==
    /\ MayRun(s)
    /\ task[s].pc = "tts_start"
    /\ update_progress(s, "youtube", 80, <<"Generating audio narration file...">>)
    /\ SetTask(s, [task[s] EXCEPT !.pc = "tts", !.audio_path = "None"])
    /\ cur' = 0
    /\ UNCHANGED <<temp_files, calls>>
    /\ TaskFrame

\* Mutation of TaskTts: a failed text_to_mp3 ends the run with an error record.
TaskTts_hard(s) ==
    /\ MayRun(s)
    /\ task[s].pc = "tts"
    /\ \E ok \in BOOLEAN :
         /\ Called(s, IF ok THEN "tts" ELSE "tts_failed")
         /\ IF ok
            THEN /\ update_progress(s, "youtube", 95, <<"Audio narration file generated">>)
                 /\ SetTask(s, [task[s] EXCEPT !.pc = "finalize",
                                               !.audio_path = "media/narration.mp3"])
            ELSE /\ update_progress(s, "error", 100, <<"Audio generation failed">>)
                 /\ SetTask(s, [task[s] EXCEPT !.pc = "return", !.audio_path = "None"])
    /\ cur' = AfterPush(s)
    /\ UNCHANGED temp_files
    /\ TaskFrame

\* lines 133-137: text_to_mp3 returns or raises.
TaskTts(s) ==
    /\ MayRun(s)
    /\ task[s].pc = "tts"
    /\ \E ok \in BOOLEAN :
         /\ Called(s, IF ok THEN "tts" ELSE "tts_failed")
         /\ IF ok
            THEN /\ update_progress(s, "youtube", 95, <<"Audio narration file generated">>)
                 /\ SetTask(s, [task[s] EXCEPT !.pc = "finalize",
                                               !.audio_path = "media/narration.mp3"])
            ELSE /\ update_progress(s, "youtube", 95, <<"Audio generation failed">>)
                 /\ SetTask(s, [task[s] EXCEPT !.pc = "finalize", !.audio_path = "None"])
    /\ cur' = AfterPush(s)
    /\ UNCHANGED temp_files
    /\ TaskFrame

\* lines 140-157
LessonData(t) ==
    [title |-> Title, courseId |-> CourseId, narration |-> t.narration,
     content |-> [root |-> [children |-> t.lexical_children]]]

\* Mutation of TaskSelection: the last record stops short of 100.
TaskSelection_short(s) ==
    /\ MayRun(s)
    /\ task[s].pc = "finalize"
    /\ update_progress(s, "selection", 95, <<"Lesson ready for video selection">>)
    /\ SetTask(s, [task[s] EXCEPT !.pc = "store"])
    /\ cur' = AfterPush(s)
    /\ UNCHANGED <<temp_files, calls>>
    /\ TaskFrame

\* line 159
TaskSelection(s) ==
    /\ MayRun(s)
    /\ task[s].pc = "finalize"
    /\ update_progress(s, "selection", 100, <<"Lesson ready for video selection">>)
    /\ SetTask(s, [task[s] EXCEPT !.pc = "store"])
    /\ cur' = AfterPush(s)
    /\ UNCHANGED <<temp_files, calls>>
    /\ TaskFrame

\* lines 163-165, then the finally block: the result is put into the stored record;
\* with no record for the id the first assignment raises KeyError, which lines 172-176
\* turn into an HTTPException that ends the task.
TaskStoreResult(s) ==
    /\ MayRun(s)
    /\ task[s].pc = "store"
    /\ IF s \in DOMAIN progress_tracker
       THEN /\ progress_tracker' = SetKey(progress_tracker, s,
                    SetKey(SetKey(SetKey(progress_tracker[s],
                        "lesson_data", LessonData(task[s])),
                        "keywords", task[s].keywords),
                        "youtube_videos", task[s].youtube_videos))
            /\ SetTask(s, [task[s] EXCEPT !.pc = "done"])
       ELSE /\ progress_tracker' = progress_tracker
            /\ SetTask(s, [task[s] EXCEPT !.pc = "crashed"])
    /\ temp_files' = temp_files \ {s}
    /\ cur' = 0
    /\ sent' = <<>>
    /\ UNCHANGED <<active_connections, written, calls>>
    /\ TaskFrame

\* Mutation of TaskReturn: the task returns without the finally block.
TaskReturn_keep(s) ==
    /\ MayRun(s)
    /\ task[s].pc = "return"
    /\ SetTask(s, [task[s] EXCEPT !.pc = "failed"])
    /\ cur' = 0
    /\ sent' = <<>>
    /\ UNCHANGED <<progress_tracker, active_connections, written, calls, temp_files>>
    /\ TaskFrame

\* lines 97 and 106, then the finally block: the task returns after an error record.
TaskReturn(s) ==
    /\ MayRun(s)
    /\ task[s].pc = "return"
    /\ SetTask(s, [task[s] EXCEPT !.pc = "failed"])
    /\ temp_files' = temp_files \ {s}
    /\ cur' = 0
    /\ sent' = <<>>
    /\ UNCHANGED <<progress_tracker, active_connections, written, calls>>
    /\ TaskFrame

\* Handlers that answer a request leave the tasks and the sockets alone.
HttpFrame == UNCHANGED <<ws, task, cur, written, calls, finish_vars, chat_vars, validator_vars>>

\* ---------------------------------------------------- api.py: cleanup
\* POST /cleanup/, also called by cancel_lesson_generation: every file in temp/ is
\* unlinked.
cleanup ==
    /\ cur = 0
    /\ temp_files' = {}
    /\ sent' = <<>>
    /\ UNCHANGED <<progress_tracker, active_connections, cancelled, consumed>>
    /\ HttpFrame

\* ------------------------------------------------ api.py: get_progress
\* The status and body get_progress answers with when the store is pt.
get_progress_response(pt, s) ==
    IF s \in DOMAIN pt
    THEN [status |-> 200, content |-> pt[s]]
    ELSE [status |-> 404, content |-> [error |-> "Session not found"]]

get_progress(s) ==
    /\ cur = 0
    /\ Known(s)
    /\ get_progress_response(progress_tracker, s).status \in {200, 404}
    /\ sent' = <<>>
    /\ UNCHANGED <<progress_tracker, active_connections, temp_files, cancelled, consumed>>
    /\ HttpFrame

\* -------------------------------------------- api.py: get_lesson_result
\* The status and body get_lesson_result answers with when the store is pt.
get_lesson_result_response(pt, s) ==
    IF s \notin DOMAIN pt
    THEN [status |-> 404,
          content |-> [detail |-> "Session not found"]]
    ELSE IF pt[s].stage # "selection" \/ pt[s].progress < 100
    THEN [status |-> 202,
          content |-> [detail |-> "Lesson generation still in progress"]]
    ELSE IF "lesson_data" \notin DOMAIN pt[s]
    THEN [status |-> 500,
          content |-> [detail |-> "Lesson data not found"]]
    ELSE [status |-> 200,
          content |-> [lesson_data |-> pt[s]["lesson_data"],
                       youtube_videos |-> pt[s]["youtube_videos"],
                       session_id |-> s]]

\* Mutation of get_lesson_result: the result is returned and the record is kept.
get_lesson_result_keep(s) ==
    /\ cur = 0
    /\ Known(s)
    /\ IF get_lesson_result_response(progress_tracker, s).status = 200
       THEN consumed' = consumed \cup {s}
       ELSE UNCHANGED consumed
    /\ sent' = <<>>
    /\ UNCHANGED <<progress_tracker, active_connections, temp_files, cancelled>>
    /\ HttpFrame

\* Mutation of get_lesson_result: the record is deleted before the stage is looked at.
get_lesson_result_eager(s) ==
    /\ cur = 0
    /\ Known(s)
    /\ progress_tracker' = DelKey(progress_tracker, s)
    /\ IF get_lesson_result_response(progress_tracker, s).status = 200
       THEN consumed' = consumed \cup {s}
       ELSE UNCHANGED consumed
    /\ sent' = <<>>
    /\ UNCHANGED <<active_connections, temp_files, cancelled>>
    /\ HttpFrame

\* line 557: the record is deleted only on the way to the 200 answer.
get_lesson_result(s) ==
    /\ cur = 0
    /\ Known(s)
    /\ IF get_lesson_result_response(progress_tracker, s).status = 200
       THEN /\ progress_tracker' = DelKey(progress_tracker, s)
            /\ consumed' = consumed \cup {s}
       ELSE UNCHANGED <<progress_tracker, consumed>>
    /\ sent' = <<>>
    /\ UNCHANGED <<active_connections, temp_files, cancelled>>
    /\ HttpFrame

\* -------------------------------------- api.py: cancel_lesson_generation
CancellationData ==
    [stage |-> "cancelled", progress |-> 0, message |-> <<"Lesson generation cancelled by user">>]

\* Mutation of cancel_lesson_generation: the cancellation record is written into the
\* store instead of the record being deleted.
cancel_lesson_generation_record(s) ==
    /\ cur = 0
    /\ Known(s)
    /\ progress_tracker' = SetKey(progress_tracker, s, CancellationData)
    /\ send_progress_update(disconnect(active_connections, s), s, CancellationData)
    /\ temp_files' = {}
    /\ cancelled' = cancelled \cup {s}
    /\ UNCHANGED consumed
    /\ HttpFrame

\* The record is deleted, the id is disconnected, the cancellation event is sent to
\* whatever is registered for the id after that, and cleanup() empties temp/.
cancel_lesson_generation(s) ==
    /\ cur = 0
    /\ Known(s)
    /\ progress_tracker' = DelKey(progress_tracker, s)
    /\ send_progress_update(disconnect(active_connections, s), s, CancellationData)
    /\ temp_files' = {}
    /\ cancelled' = cancelled \cup {s}
    /\ UNCHANGED consumed
    /\ HttpFrame

\* ------------------------------------------- api.py: websocket_endpoint
WsFrame == UNCHANGED <<progress_tracker, task, temp_files, cur, written, calls,
                       cancelled, consumed, finish_vars, chat_vars, validator_vars>>

\* A client opens /ws/lesson-progress/{s}: the handler starts and awaits accept().
\* Until accept() returns the socket touches nothing, so the sockets are taken in the
\* order in which they get through it.
ws_connect(w, s) ==
    /\ cur = 0
    /\ Known(s)
    /\ ws[w].state = "idle"
    /\ \A v \in Sockets : v < w => ws[v].state \notin {"idle", "accepting"}
    /\ ws' = [ws EXCEPT ![w] = [state |-> "accepting", sid |-> s]]
    /\ sent' = <<>>
    /\ UNCHANGED active_connections
    /\ WsFrame

\* accept() returns: manager.connect registers the socket for the id (line 42), then
\* the stored record, if any, is sent (lines 369-370) and the receive loop starts.
ws_accepted(w) ==
    /\ cur = 0
    /\ ws[w].state = "accepting"
    /\ ws' = [ws EXCEPT ![w].state = "open"]
    /\ LET sid == ws[w].sid
           ac == SetKey(active_connections, sid, w)
       IN  IF sid \in DOMAIN progress_tracker
           THEN send_progress_update(ac, sid, progress_tracker[sid])
           ELSE /\ active_connections' = ac
                /\ sent' = <<>>
    /\ WsFrame

\* The client closes the socket, or the connection is lost.
ws_client_close(w) ==
    /\ cur = 0
    /\ ws[w].state = "open"
    /\ ws' = [ws EXCEPT ![w].state = "closed"]
    /\ sent' = <<>>
    /\ UNCHANGED active_connections
    /\ WsFrame

\* Mutation of ws_handler_exit: the handler also drops the session's record.
ws_handler_exit_forget(w) ==
    /\ cur = 0
    /\ ws[w].state = "closed"
    /\ ws' = [ws EXCEPT ![w].state = "exited"]
    /\ active_connections' = disconnect(active_connections, ws[w].sid)
    /\ progress_tracker' = DelKey(progress_tracker, ws[w].sid)
    /\ sent' = <<>>
    /\ UNCHANGED <<task, temp_files, cur, written, calls, cancelled, consumed, finish_vars, chat_vars, validator_vars>>

\* lines 375-380: receive_text raises in the handler of a closed socket, and the
\* handler disconnects its session id.
ws_handler_exit(w) ==
    /\ cur = 0
    /\ ws[w].state = "closed"
    /\ ws' = [ws EXCEPT ![w].state = "exited"]
    /\ active_connections' = disconnect(active_connections, ws[w].sid)
    /\ sent' = <<>>
    /\ WsFrame

\* ------------------------------------------------------ specification
Next ==
    \/ \E s \in Sessions, upload \in Uploads : process_pdf(s, upload)
    \/ \E s \in Sessions : TaskStart(s)
    \/ \E s \in Sessions : pdf_to_lexical_open(s)
    \/ \E s \in Sessions : pdf_to_lexical_step(s)
    \/ \E s \in Sessions : TaskNarrationStart(s)
    \/ \E s \in Sessions : TaskNarration(s)
    \/ \E s \in Sessions : TaskKeywordsStart(s)
    \/ \E s \in Sessions : TaskKeywords(s)
    \/ \E s \in Sessions : TaskYoutubeStart(s)
    \/ \E s \in Sessions : TaskYoutube(s)
    \/ \E s \in Sessions : TaskTtsStart(s)
    \/ \E s \in Sessions : TaskTts(s)
    \/ \E s \in Sessions : TaskSelection(s)
    \/ \E s \in Sessions : TaskStoreResult(s)
    \/ \E s \in Sessions : TaskReturn(s)
    \/ \E s \in Sessions : get_progress(s)
    \/ \E s \in Sessions : get_lesson_result(s)
    \/ \E s \in Sessions : cancel_lesson_generation(s)
    \/ cleanup
    \/ \E w \in Sockets, s \in Sessions : ws_connect(w, s)
    \/ \E w \in Sockets : ws_accepted(w)
    \/ \E w \in Sockets : ws_client_close(w)
    \/ \E w \in Sockets : ws_handler_exit(w)

Spec == Init /\ [][Next]_vars

\* The steps of the background task of session s. The event loop runs a task that is
\* ready, and every collaborator call returns or raises.
TaskNext(s) ==
    \/ TaskStart(s)
    \/ pdf_to_lexical_open(s)
    \/ pdf_to_lexical_step(s)
    \/ TaskNarrationStart(s)
    \/ TaskNarration(s)
    \/ TaskKeywordsStart(s)
    \/ TaskKeywords(s)
    \/ TaskYoutubeStart(s)
    \/ TaskYoutube(s)
    \/ TaskTtsStart(s)
    \/ TaskTts(s)
    \/ TaskSelection(s)
    \/ TaskStoreResult(s)
    \/ TaskReturn(s)
\* The service when no client cancels.
NextLive ==
    \/ \E s \in Sessions, upload \in Uploads : process_pdf(s, upload)
    \/ \E s \in Sessions : TaskNext(s)
    \/ \E s \in Sessions : get_progress(s)
    \/ \E s \in Sessions : get_lesson_result(s)
    \/ cleanup
    \/ \E w \in Sockets, s \in Sessions : ws_connect(w, s)
    \/ \E w \in Sockets : ws_accepted(w)
    \/ \E w \in Sockets : ws_client_close(w)
    \/ \E w \in Sockets : ws_handler_exit(w)
SpecLive == Init /\ [][NextLive]_vars /\ \A s \in Sessions : WF_vars(TaskNext(s))

\* ----------------------------------------------------- api.py: finish
MaxVideos == 2

ParagraphA == [type |-> "paragraph", text |-> "first"]
ParagraphB == [type |-> "heading", text |-> "second"]
Drafts == {<<>>, <<ParagraphA>>, <<ParagraphA, ParagraphB>>, <<ParagraphB, ParagraphA>>}

\* A draft as get_lesson_result hands it out, and a body without "content".
LessonOf(children) == [title |-> Title, content |-> [root |-> [children |-> children]]]
MalformedLesson == [title |-> Title]

\* A selected video, and one whose entry has no "url".
VideoNoUrl == [videoId |-> "c"]
VideoChoices == {Video("a"), Video("b"), VideoNoUrl}
VideoLists == UNION {[1..n -> VideoChoices] : n \in 0..MaxVideos}
FinishRequests ==
    [lesson_data : {LessonOf(d) : d \in Drafts} \cup {MalformedLesson},
     selected_videos : VideoLists]

\* payload.upload_media: the JSON of the media store, or an exception (open() of a
\* missing file, a connection error, raise_for_status).
UploadResponses == {[id |-> "m1"], [doc |-> [id |-> "m2"]], [message |-> "created"]}
UploadOutcomes ==
    {[raised |-> TRUE]} \cup {[raised |-> FALSE, response |-> p] : p \in UploadResponses}

\* lines 214 and 246: payload.get("id") or payload.get("doc", {}).get("id")
media_id(p) ==
    IF "id" \in DOMAIN p THEN p.id
    ELSE IF "doc" \in DOMAIN p
         THEN IF "id" \in DOMAIN p.doc THEN p.doc.id ELSE "None"
         ELSE "None"

\* lines 215-223 and 248-256
upload_node(alt, value) ==
    [type |-> "upload", version |-> 3, format |-> "", id |-> alt, fields |-> "None",
     relationTo |-> "media", value |-> value]

\* youtube.download_video and the upload that follows it: the download raises, or
\* returns without having written the file (yt-dlp runs with ignoreerrors), or writes
\* it; the body of a video without "url" raises before any call.
VideoOutcomes ==
    {[download |-> "raise"], [download |-> "nofile"]}
    \cup {[download |-> "ok", upload |-> u] : u \in UploadOutcomes}
VideoOutcomesOf(video) ==
    IF "url" \in DOMAIN video THEN VideoOutcomes ELSE {[download |-> "not_called"]}

\* The try body of lines 231-259 reaches line 257.
VideoUploaded(out) ==
    /\ out.download = "ok"
    /\ ~out.upload.raised

\* lines 229-262: the loop over enumerate(selected_videos), from position idx on.
RECURSIVE VideoNodes(_, _)
VideoNodes(outs, idx) ==
    IF idx > Len(outs) THEN <<>>
    ELSE (IF VideoUploaded(outs[idx])
          THEN <<upload_node(<<"video", idx - 1>>, media_id(outs[idx].upload.response))>>
          ELSE <<>>) \o VideoNodes(outs, idx + 1)

\* line 259 runs only after line 257: a downloaded file whose upload failed stays.
VideoLeftovers(outs) ==
    {<<"video", i - 1>> : i \in {j \in DOMAIN outs :
          outs[j].download = "ok" /\ outs[j].upload.raised}}

\* A narration file in media/: narration_<timestamp>.mp3, with the run that wrote it.
NarrationFile(timestamp, by) == <<"narration", timestamp, by>>
\* lines 203-207: media_dir.glob("narration_*.mp3") and max(audio_files, key=st_mtime);
\* <<>> when there is none.
AudioFiles(dir) == {f \in dir : f[1] = "narration"}
MostRecent(files) ==
    IF files = {} THEN <<>> ELSE CHOOSE f \in files : \A g \in files : g[2] <= f[2]

\* Mutation of FinalChildren: the video nodes are put in front of the draft.
FinalChildren_videos_first(audio, lexical_children, outs) ==
    (IF audio # NotCalled /\ ~audio.raised
     THEN <<upload_node(<<"audio">>, media_id(audio.response))>>
     ELSE <<>>)
    \o VideoNodes(outs, 1) \o lexical_children

\* lines 264-278
FinalChildren(audio, lexical_children, outs) ==
    (IF audio # NotCalled /\ ~audio.raised
     THEN <<upload_node(<<"audio">>, media_id(audio.response))>>
     ELSE <<>>)
    \o lexical_children \o VideoNodes(outs, 1)

\* Mutation of finish: a selected video that could not be attached fails the call.
finish_media_fatal ==
    /\ finish_response = NoResponse
    /\ finish_request # NoRequest
    /\ "content" \in DOMAIN finish_request.lesson_data
    /\ \E audio \in (IF AudioFiles(media_dir) # {} THEN UploadOutcomes ELSE {NotCalled}),
          save \in {"ok", "raise"} :
       \E outs \in [DOMAIN finish_request.selected_videos -> VideoOutcomes
                                                             \cup {[download |-> "not_called"]}] :
          /\ \A i \in DOMAIN outs : outs[i] \in VideoOutcomesOf(finish_request.selected_videos[i])
          /\ LET lexical_children == finish_request.lesson_data.content.root.children
                 lesson == [finish_request.lesson_data EXCEPT !.content.root.children =
                               FinalChildren(audio, lexical_children, outs)]
                 all_attached == \A i \in DOMAIN outs : VideoUploaded(outs[i])
             IN  /\ finish_outcomes' = [called |-> TRUE, audio |-> audio, videos |-> outs,
                                         save |-> IF all_attached THEN save ELSE "not_called",
                                         audio_path |-> MostRecent(AudioFiles(media_dir))]
                 /\ media_dir' = media_dir \cup VideoLeftovers(outs)
                 /\ IF save = "ok" /\ all_attached
                    THEN /\ upload_lesson_arg' = Append(upload_lesson_arg, lesson)
                         /\ lesson_store' = Append(lesson_store, lesson)
                         /\ finish_response' = [status |-> 200, lesson |-> lesson,
                                                 payload_result |-> [id |-> "lesson-1"]]
                    ELSE /\ UNCHANGED <<upload_lesson_arg, lesson_store>>
                         /\ finish_response' = [status |-> 500,
                                detail |-> <<"Failed to finish lesson: ", "500 Server Error">>]
    /\ UNCHANGED <<finish_request, runs>>
    /\ UNCHANGED <<pipeline_vars, chat_vars, validator_vars>>

\* POST /finish/: the handler has no suspension point, it runs in one step.
finish ==
    /\ finish_response = NoResponse
    /\ finish_request # NoRequest
    /\ IF "content" \notin DOMAIN finish_request.lesson_data
       THEN /\ finish_response' = [status |-> 500,
                                    detail |-> <<"Failed to finish lesson: ", "'content'">>]
            /\ finish_outcomes' = [called |-> TRUE, audio |-> NotCalled, videos |-> <<>>,
                                    save |-> "not_called", audio_path |-> <<>>]
            /\ UNCHANGED <<media_dir, upload_lesson_arg, lesson_store>>
       ELSE \E audio \in (IF AudioFiles(media_dir) # {} THEN UploadOutcomes ELSE {NotCalled}),
               save \in {"ok", "raise"} :
            \E outs \in [DOMAIN finish_request.selected_videos -> VideoOutcomes
                                                                  \cup {[download |-> "not_called"]}] :
               /\ \A i \in DOMAIN outs : outs[i] \in VideoOutcomesOf(finish_request.selected_videos[i])
               /\ LET lexical_children == finish_request.lesson_data.content.root.children
                      lesson == [finish_request.lesson_data EXCEPT !.content.root.children =
                                    FinalChildren(audio, lexical_children, outs)]
                  IN  /\ finish_outcomes' = [called |-> TRUE, audio |-> audio, videos |-> outs,
                                              save |-> save,
                                              audio_path |-> MostRecent(AudioFiles(media_dir))]
                      /\ media_dir' = media_dir \cup VideoLeftovers(outs)
                      /\ upload_lesson_arg' = Append(upload_lesson_arg, lesson)
                      /\ IF save = "ok"
                         THEN /\ lesson_store' = Append(lesson_store, lesson)
                              /\ finish_response' = [status |-> 200, lesson |-> lesson,
                                                      payload_result |-> [id |-> "lesson-1"]]
                         ELSE /\ lesson_store' = lesson_store
                              /\ finish_response' = [status |-> 500,
                                     detail |-> <<"Failed to finish lesson: ", "500 Server Error">>]
    /\ UNCHANGED <<finish_request, runs>>
    /\ UNCHANGED <<pipeline_vars, chat_vars, validator_vars>>

\* The /finish/ call on its own: any request body, with or without a narration file
\* of an earlier run in media/.
InitFinish ==
    /\ PipelineInit
    /\ finish_request \in FinishRequests
    /\ media_dir \in {{}, {NarrationFile(0, 0)}}
    /\ finish_outcomes = NotCalled
    /\ upload_lesson_arg = <<>>
    /\ lesson_store = <<>>
    /\ finish_response = NoResponse
    /\ runs = NoRuns
    /\ ChatIdle
    /\ ValidatorIdle

NextFinish == finish

SpecFinish == InitFinish /\ [][NextFinish]_vars

\* ---------------------------------------- services/chatbot.py: ChatSession
MaxTurns == 2
MaxStreamTurns == 1
HistoryTurns == 10
HistoryCap == 20

\* Mutation of add_message: the trim keeps the first 20 entries.
add_message_keep_first(history, role, content) ==
    LET h == Append(history, [role |-> role, content |-> content])
    IN  IF Len(h) > HistoryCap THEN SubSeq(h, 1, HistoryCap) ELSE h

\* ChatSession.add_message on the history list: append, then keep the last 20.
add_message(history, role, content) ==
    LET h == Append(history, [role |-> role, content |-> content])
    IN  IF Len(h) > HistoryCap THEN SubSeq(h, Len(h) - HistoryCap + 1, Len(h)) ELSE h

\* ChatSession.__init__
ChatSession(lesson_id) ==
    [lesson_id |-> lesson_id, history |-> <<>>, context_cache |-> <<>>, last_activity |-> now]

\* ------------------------------------ services/chatbot.py: ChatbotService
LessonId == 1
NoConversation == 0
UnknownConversation == 99

\* create_session: uuid4 gives an id no session has or had (every session is entered
\* in fetches by the step that creates it).
NewSessionId == Cardinality(DOMAIN sessions \cup DOMAIN fetches) + 1
create_session(ss, lesson_id) == SetKey(ss, NewSessionId, ChatSession(lesson_id))

\* The session named by id, or the one create_session makes when there is none.
SessionFor(id) == IF id \in DOMAIN sessions THEN id ELSE NewSessionId
WithSession(id, lesson_id) ==
    IF id \in DOMAIN sessions THEN sessions ELSE create_session(sessions, lesson_id)

\* How many turns a client sends, and the number of the turn that starts now.
BudgetOf(env) ==
    IF env = "steady" THEN [http |-> HistoryTurns, ws |-> MaxStreamTurns]
    ELSE IF env = "sweep" THEN [http |-> MaxTurns, ws |-> 0]
    ELSE [http |-> MaxTurns, ws |-> MaxStreamTurns]
TurnNo ==
    BudgetOf(chat_env).http + BudgetOf(chat_env).ws - turns_left.http - turns_left.ws + 1

\* get_lesson_context: the context, or {} when the lesson store does not answer 200
\* or the request raises. In a steady run the store answers.
LessonContext(lesson_id) ==
    [lesson |-> lesson_id, context_summary |-> "summary", keywords |-> <<"algebra">>]
FetchOutcomes(lesson_id) ==
    IF chat_env \in {"steady", "sweep"} THEN {LessonContext(lesson_id)}
    ELSE {LessonContext(lesson_id), <<>>}

\* The lesson_id field of a chat request: the lesson the client is looking at; in a
\* run about lessons the client moves between two lessons.
LessonIds == IF chat_env = "lessons" THEN {LessonId, LessonId + 1} ELSE {LessonId}

\* llm.py is_available and generate_response: the reply, or what line 321 or llm.py
\* 100-103 raise. In a steady run the LLM answers.
MsgLlmUnavailable == <<"LLM service is not available - check Ollama connection and model">>
LlmErrors ==
    {MsgLlmUnavailable,
     <<"Failed to generate response: ", "timeout">>,
     <<"Failed to generate response: ", "Ollama API error: 500">>}
LlmOutcomes ==
    {[ok |-> TRUE]}
    \cup (IF chat_env \in {"steady", "sweep"} THEN {}
          ELSE {[ok |-> FALSE, error |-> e] : e \in LlmErrors})

\* llm.py generate_streaming_response: the tokens it yields, and the exception that
\* ends the stream early, if any.
Tokens(n) == <<<<"reply">>, <<n>>>>
StreamErrors ==
    {<<"Ollama LLM service is not available">>,
     <<"Failed to generate streaming response: ", "timeout">>}
StreamOutcomes(n) ==
    {[tokens |-> Tokens(n), error |-> <<>>]}
    \cup (IF chat_env = "steady" THEN {}
          ELSE {[tokens |-> <<>>, error |-> e] : e \in StreamErrors}
               \cup {[tokens |-> <<Head(Tokens(n))>>,
                      error |-> <<"Failed to generate streaming response: ", "timeout">>]})

\* full_response += token
RECURSIVE Joined(_)
Joined(tokens) == IF tokens = <<>> THEN <<>> ELSE Head(tokens) \o Joined(Tail(tokens))

Message(n) == <<"question", n>>
Reply(n) == <<"reply", n>>
FallbackResponse ==
    <<"I'm sorry, I'm having trouble processing your request right now. Could you please try rephrasing your question?">>
RelatedLessons == <<[id |-> 2, title |-> "Geometry"]>>
\* generate_suggestions for the default mode and a message without "explain"/"summary".
Suggestions ==
    <<"Can you explain this concept further?", "Create a practice question about this",
      "What are the key takeaways?">>

\* generate_response lines 341-347, and its except branch, lines 355-362.
generate_response_result(session_id, response) ==
    [response |-> response, session_id |-> session_id, related_lessons |-> RelatedLessons,
     suggestions |-> Suggestions]
generate_response_fallback(session_id, e) ==
    [response |-> FallbackResponse, session_id |-> session_id, related_lessons |-> <<>>,
     suggestions |-> <<"Can you explain this concept further?", "What are the key points?">>,
     error |-> e]

\* The add_message call of turn n on session sid, on the session map and in the log.
\* A handler keeps the ChatSession object it looked up: once the sweep has removed the
\* session from the map, what the handler does to the object no longer shows in the map.
AddMessage(ss, sid, role, content) ==
    IF sid \in DOMAIN ss
    THEN [ss EXCEPT ![sid].history = add_message(@, role, content),
                    ![sid].last_activity = now]
    ELSE ss
SetContextCache(ss, sid, ctx) ==
    IF sid \in DOMAIN ss THEN [ss EXCEPT ![sid].context_cache = ctx] ELSE ss
Logged(log, sid, role, content, n) ==
    SetKey(log, sid, Append(IF sid \in DOMAIN log THEN log[sid] ELSE <<>>,
                            [role |-> role, content |-> content, turn |-> n, at |-> now]))
Fetched(f, sid) == SetKey(f, sid, (IF sid \in DOMAIN f THEN f[sid] ELSE 0) + 1)

ChatFrame == UNCHANGED <<pipeline_vars, finish_vars, chat_env, now, validator_vars>>

\* What goes out to the chat client: the JSON body, with the turn it belongs to and
\* the text of the exception behind it, if any (neither is part of what is sent).
Sent(channel, n, body, cause) == [channel |-> channel, turn |-> n, body |-> body, cause |-> cause]

\* ------------------------------------------- api.py: send_chat_message
\* The conversation id a client sends: none, one no session has, or one it was given;
\* in a steady run it sends back the one it was given.
ConversationIds ==
    IF chat_env = "steady"
    THEN IF client_ids = {} THEN {NoConversation} ELSE client_ids
    ELSE IF chat_env = "sweep" THEN {NoConversation} \cup client_ids
    ELSE {NoConversation, UnknownConversation} \cup client_ids

\* Mutation of send_chat_message: every call creates a session.
send_chat_message_always_new(conversation_id) ==
    /\ http_turn.pc = "idle"
    /\ turns_left.http > 0
    /\ \E lesson_id \in LessonIds :
       LET sid == NewSessionId
           ss == AddMessage(create_session(sessions, lesson_id), sid, "user", Message(TurnNo))
       IN  /\ sessions' = ss
           /\ added' = Logged(added, sid, "user", Message(TurnNo), TurnNo)
           /\ http_turn' = [pc |-> "context", n |-> TurnNo,
                            session_id |-> sid, conversation_id |-> conversation_id,
                            lesson_id |-> ss[sid].lesson_id]
           /\ fetches' = Fetched(fetches, sid)
    /\ turns_left' = [turns_left EXCEPT !.http = @ - 1]
    /\ chat_sent' = <<>>
    /\ UNCHANGED <<ws_turn, client_ids>>
    /\ ChatFrame

\* api.py 591-607 and generate_response 281-290: up to the await of get_lesson_context,
\* or, with the context cached, up to the awaits of the LLM.
send_chat_message(conversation_id) ==
    /\ http_turn.pc = "idle"
    /\ turns_left.http > 0
    /\ \E lesson_id \in LessonIds :
       LET sid == SessionFor(conversation_id)
           ss == AddMessage(WithSession(conversation_id, lesson_id), sid, "user", Message(TurnNo))
           cached == ss[sid].context_cache # <<>>
       IN  /\ sessions' = ss
           /\ added' = Logged(added, sid, "user", Message(TurnNo), TurnNo)
           /\ http_turn' = [pc |-> IF cached THEN "llm" ELSE "context", n |-> TurnNo,
                            session_id |-> sid, conversation_id |-> conversation_id,
                            lesson_id |-> ss[sid].lesson_id]
           /\ fetches' = IF cached THEN fetches ELSE Fetched(fetches, sid)
    /\ turns_left' = [turns_left EXCEPT !.http = @ - 1]
    /\ chat_sent' = <<>>
    /\ UNCHANGED <<ws_turn, client_ids>>
    /\ ChatFrame

\* generate_response 290: get_lesson_context(session.lesson_id) returns and the cache is
\* assigned.
http_context_returns ==
    /\ http_turn.pc = "context"
    /\ \E ctx \in FetchOutcomes(http_turn.lesson_id) :
         sessions' = SetContextCache(sessions, http_turn.session_id, ctx)
    /\ http_turn' = [http_turn EXCEPT !.pc = "llm"]
    /\ chat_sent' = <<>>
    /\ UNCHANGED <<ws_turn, client_ids, turns_left, added, fetches>>
    /\ ChatFrame

\* Mutation of http_llm_returns: a failure of the LLM reaches the handler's except
\* branch (api.py 619-621) instead of the fallback.
http_llm_returns_raise ==
    /\ http_turn.pc = "llm"
    /\ \E o \in LlmOutcomes :
         LET sid == http_turn.session_id
             n == http_turn.n
         IN  IF o.ok
             THEN /\ sessions' = AddMessage(sessions, sid, "assistant", Reply(n))
                  /\ added' = Logged(added, sid, "assistant", Reply(n), n)
                  /\ http_turn' = [http_turn EXCEPT !.pc = "related"]
                  /\ chat_sent' = <<>>
                  /\ UNCHANGED client_ids
             ELSE /\ UNCHANGED <<sessions, added, client_ids>>
                  /\ http_turn' = NoTurn
                  /\ chat_sent' = <<Sent("http", n,
                          [detail |-> <<"Failed to process chat message: ">> \o o.error],
                          o.error)>>
    /\ UNCHANGED <<ws_turn, turns_left, fetches>>
    /\ ChatFrame

\* generate_response 310-332 and 349-362: the LLM answers and the reply is added, or
\* it fails, the fallback is added and the call returns; api.py 617 sends the result.
http_llm_returns ==
    /\ http_turn.pc = "llm"
    /\ \E o \in LlmOutcomes :
         LET sid == http_turn.session_id
             n == http_turn.n
         IN  IF o.ok
             THEN /\ sessions' = AddMessage(sessions, sid, "assistant", Reply(n))
                  /\ added' = Logged(added, sid, "assistant", Reply(n), n)
                  /\ http_turn' = [http_turn EXCEPT !.pc = "related"]
                  /\ chat_sent' = <<>>
                  /\ UNCHANGED client_ids
             ELSE /\ sessions' = AddMessage(sessions, sid, "assistant", FallbackResponse)
                  /\ added' = Logged(added, sid, "assistant", FallbackResponse, n)
                  /\ http_turn' = NoTurn
                  /\ chat_sent' = <<Sent("http", n, generate_response_fallback(sid, o.error),
                                          o.error)>>
                  /\ client_ids' = client_ids \cup {sid}
    /\ UNCHANGED <<ws_turn, turns_left, fetches>>
    /\ ChatFrame

\* generate_response 336-347: find_related_lessons returns (it never raises) and the
\* result goes out.
http_related_returns ==
    /\ http_turn.pc = "related"
    /\ chat_sent' = <<Sent("http", http_turn.n,
                            generate_response_result(http_turn.session_id, Reply(http_turn.n)),
                            <<>>)>>
    /\ client_ids' = client_ids \cup {http_turn.session_id}
    /\ http_turn' = NoTurn
    /\ UNCHANGED <<sessions, ws_turn, turns_left, added, fetches>>
    /\ ChatFrame

\* ------------------------------------------ api.py: websocket_chat_endpoint
\* The id in the path of /ws/chat/{session_id}: one the client was given, or its own.
WsUrlIds == client_ids \cup {UnknownConversation}

\* lines 689-697
ws_chat_connect(url_id) ==
    /\ ws_turn.pc = "closed"
    /\ turns_left.ws > 0
    /\ ws_turn' = [pc |-> "idle", session_id |-> url_id]
    /\ chat_sent' = <<>>
    /\ UNCHANGED <<sessions, http_turn, client_ids, turns_left, added, fetches>>
    /\ ChatFrame

WsEvent(type, content) == [type |-> type, content |-> content]

\* lines 700-739: a "message" event arrives; the session is found or created (the
\* local session_id is rebound), "typing" goes out, and the handler runs up to the
\* await of get_lesson_context or, with the context cached, up to the stream.
ws_chat_message ==
    /\ ws_turn.pc = "idle"
    /\ turns_left.ws > 0
    /\ \E lesson_id \in LessonIds :
       LET sid == SessionFor(ws_turn.session_id)
           ss == WithSession(ws_turn.session_id, lesson_id)
           cached == ss[sid].context_cache # <<>>
       IN  /\ sessions' = IF cached THEN AddMessage(ss, sid, "user", Message(TurnNo)) ELSE ss
           /\ added' = IF cached THEN Logged(added, sid, "user", Message(TurnNo), TurnNo)
                       ELSE added
           /\ fetches' = IF cached THEN fetches ELSE Fetched(fetches, sid)
           /\ ws_turn' = [pc |-> IF cached THEN "stream" ELSE "context", n |-> TurnNo,
                          session_id |-> sid, lesson_id |-> lesson_id]
           /\ chat_sent' = <<Sent("ws", TurnNo, WsEvent("typing", <<"AI is thinking...">>), <<>>)>>
    /\ turns_left' = [turns_left EXCEPT !.ws = @ - 1]
    /\ UNCHANGED <<http_turn, client_ids>>
    /\ ChatFrame

\* lines 733-739: get_lesson_context(lesson_id), called with the lesson_id of the
\* message, returns, the cache is assigned, the user message is added.
ws_context_returns ==
    /\ ws_turn.pc = "context"
    /\ \E ctx \in FetchOutcomes(ws_turn.lesson_id) :
         sessions' = AddMessage(SetContextCache(sessions, ws_turn.session_id, ctx),
                                ws_turn.session_id, "user", Message(ws_turn.n))
    /\ added' = Logged(added, ws_turn.session_id, "user", Message(ws_turn.n), ws_turn.n)
    /\ ws_turn' = [ws_turn EXCEPT !.pc = "stream"]
    /\ chat_sent' = <<>>
    /\ UNCHANGED <<http_turn, client_ids, turns_left, fetches>>
    /\ ChatFrame

\* lines 805-809
ws_error_event(e) ==
    WsEvent("error", <<"Sorry, I encountered an error: ">> \o e \o <<". Please try again.">>)

\* lines 754-766: one "token" event per token the LLM yields.
TokenEvents(n, tokens) ==
    [i \in DOMAIN tokens |-> Sent("ws", n, WsEvent("token", tokens[i]), <<>>)]

\* lines 754-782 and 801-809: the stream runs to its end, the reply is added and
\* "complete" goes out; or it raises and "error" goes out.
ws_stream ==
    /\ ws_turn.pc = "stream"
    /\ \E o \in StreamOutcomes(ws_turn.n) :
         LET sid == ws_turn.session_id
             n == ws_turn.n
         IN  IF o.error = <<>>
             THEN /\ sessions' = AddMessage(sessions, sid, "assistant", Joined(o.tokens))
                  /\ added' = Logged(added, sid, "assistant", Joined(o.tokens), n)
                  /\ chat_sent' = TokenEvents(n, o.tokens)
                          \o <<Sent("ws", n, WsEvent("complete", Joined(o.tokens)), <<>>)>>
             ELSE /\ UNCHANGED <<sessions, added>>
                  /\ chat_sent' = TokenEvents(n, o.tokens)
                          \o <<Sent("ws", n, ws_error_event(o.error), o.error)>>
    /\ ws_turn' = [pc |-> "idle", session_id |-> ws_turn.session_id]
    /\ UNCHANGED <<http_turn, client_ids, turns_left, fetches>>
    /\ ChatFrame

\* lines 811-812: a "ping" event arrives and "pong" goes out.
ws_ping ==
    /\ ws_turn.pc = "idle"
    /\ chat_sent' = <<Sent("ws", 0, WsEvent("pong", <<>>), <<>>)>>
    /\ UNCHANGED <<sessions, http_turn, ws_turn, client_ids, turns_left, added, fetches>>
    /\ ChatFrame

\* ---------------------------------------------- the chat service on its own
ChatStart(env) ==
    /\ sessions = <<>>
    /\ http_turn = NoTurn
    /\ ws_turn = NoWs
    /\ client_ids = {}
    /\ turns_left = BudgetOf(env)
    /\ chat_env = env
    /\ chat_sent = <<>>
    /\ added = <<>>
    /\ fetches = <<>>
    /\ now = 0

NextChat ==
    \/ \E c \in ConversationIds : send_chat_message(c)
    \/ http_context_returns
    \/ http_llm_returns
    \/ http_related_returns
    \/ \E u \in WsUrlIds : ws_chat_connect(u)
    \/ ws_chat_message
    \/ ws_context_returns
    \/ ws_stream
    \/ ws_ping

\* A few turns with any behaviour of the client and of the collaborators.
InitChat == PipelineInit /\ FinishIdle /\ ValidatorIdle /\ ChatStart("any")
SpecChat == InitChat /\ [][NextChat]_vars

\* A few turns of a client that moves between two lessons.
InitLessons == PipelineInit /\ FinishIdle /\ ValidatorIdle /\ ChatStart("lessons")
SpecLessons == InitLessons /\ [][NextChat]_vars

\* Many turns of a client that keeps its conversation, with collaborators that answer.
InitHistory == PipelineInit /\ FinishIdle /\ ValidatorIdle /\ ChatStart("steady")
SpecHistory == InitHistory /\ [][NextChat]_vars

\* ------------------------------------------- the sweep of old chat sessions
MaxTicks == 3
HoursPerTick == 12
MaxAgeHours == 24

\* age = (current_time - session.last_activity).total_seconds() / 3600
Age(session) == (now - session.last_activity) * HoursPerTick

\* Mutation of cleanup_old_sessions: a session expires when its age reaches the limit.
cleanup_old_sessions_at_limit(ss, max_age_hours) ==
    [id \in {i \in DOMAIN ss : ~(Age(ss[i]) >= max_age_hours)} |-> ss[id]]

\* chatbot.py 396-407: the sessions whose age is over the limit are deleted.
cleanup_old_sessions(ss, max_age_hours) ==
    [id \in {i \in DOMAIN ss : ~(Age(ss[i]) > max_age_hours)} |-> ss[id]]

\* api.py 846-864: POST /api/chat/cleanup. The handler has no await, so it runs whole
\* between two steps of the turns in flight.
cleanup_chat_sessions ==
    /\ LET initial_count == Cardinality(DOMAIN sessions)
           final_count == Cardinality(DOMAIN cleanup_old_sessions(sessions, MaxAgeHours))
       IN  chat_sent' = <<Sent("http", 0,
               [message |-> <<"Cleaned up ", initial_count - final_count,
                              " expired chat sessions">>,
                active_sessions |-> final_count], <<>>)>>
    /\ sessions' = cleanup_old_sessions(sessions, MaxAgeHours)
    /\ UNCHANGED <<http_turn, ws_turn, client_ids, turns_left, added, fetches>>
    /\ ChatFrame

\* Time passes.
Tick ==
    /\ now < MaxTicks
    /\ now' = now + 1
    /\ UNCHANGED <<sessions, http_turn, ws_turn, client_ids, turns_left, chat_env, chat_sent,
                   added, fetches>>
    /\ UNCHANGED <<pipeline_vars, finish_vars, validator_vars>>

NextSweep ==
    \/ \E c \in ConversationIds : send_chat_message(c)
    \/ http_context_returns
    \/ http_llm_returns
    \/ http_related_returns
    \/ cleanup_chat_sessions
    \/ Tick

\* HTTP turns of a client that opens conversations and comes back to them while time
\* passes and the sweep is called, with collaborators that answer.
InitSweep == PipelineInit /\ FinishIdle /\ ValidatorIdle /\ ChatStart("sweep")
SpecSweep == InitSweep /\ [][NextSweep]_vars

\* ------------------------------------ runs that share the media/ directory
NumRuns == 2
MediaSessions == 1..NumRuns

\* The draft each run hands out through get_lesson_result.
DraftOf(s) == <<[type |-> "paragraph", text |-> <<"lesson of run", s>>]>>

\* api.py 125-137: the run of s writes media/narration_<timestamp>.mp3, replacing a
\* file of the same second, and keeps the path in its local audio_path; or text_to_mp3
\* raises and audio_path is None.
text_to_mp3(s) ==
    /\ runs[s].pc = "tts"
    /\ \E ok \in BOOLEAN :
         IF ok
         THEN /\ media_dir' = {f \in media_dir : ~(f[1] = "narration" /\ f[2] = now)}
                                  \cup {NarrationFile(now, s)}
              /\ runs' = [runs EXCEPT ![s] = [pc |-> "selection",
                                               audio_path |-> <<"narration", now>>]]
         ELSE /\ media_dir' = media_dir
              /\ runs' = [runs EXCEPT ![s] = [pc |-> "selection", audio_path |-> <<>>]]
    /\ UNCHANGED <<finish_request, finish_outcomes, upload_lesson_arg, lesson_store,
                   finish_response>>
    /\ UNCHANGED <<pipeline_vars, chat_vars, validator_vars>>

\* The client of s has its draft and posts it to /finish/ (FinishRequest, lines
\* 183-186: the body names no session).
finish_requested(s) ==
    /\ runs[s].pc = "selection"
    /\ finish_request = NoRequest
    /\ finish_request' = [lesson_data |-> LessonOf(DraftOf(s)), selected_videos |-> <<>>]
    /\ runs' = [runs EXCEPT ![s].pc = "finishing"]
    /\ UNCHANGED <<media_dir, finish_outcomes, upload_lesson_arg, lesson_store,
                   finish_response>>
    /\ UNCHANGED <<pipeline_vars, chat_vars, validator_vars>>

\* Several runs have reached the TTS stage; one of the drafts is finished.
InitMedia ==
    /\ PipelineInit /\ ChatIdle /\ ValidatorIdle
    /\ finish_request = NoRequest
    /\ media_dir = {}
    /\ finish_outcomes = NotCalled
    /\ upload_lesson_arg = <<>>
    /\ lesson_store = <<>>
    /\ finish_response = NoResponse
    /\ runs = [s \in MediaSessions |-> [pc |-> "tts", audio_path |-> <<>>]]

NextMedia ==
    \/ \E s \in MediaSessions : text_to_mp3(s)
    \/ \E s \in MediaSessions : finish_requested(s)
    \/ finish
    \/ Tick

SpecMedia == InitMedia /\ [][NextMedia]_vars

\* ------------------------------- validate_lexical_structure on its own
\* The values json.loads can hand to validate_lexical_structure: a list of at most
\* MaxNodes entries drawn from TopNodes, bare or wrapped in an object, and the values
\* that are neither.
MaxNodes == 2

Node(type, children) == JObj([type |-> JStr(type), children |-> JArr(children)])
TextNumber == JObj([type |-> JStr("text"), text |-> JNum(5)])
LineBreak == JObj([type |-> JStr("linebreak")])
ParagraphNodes ==
    {Node("paragraph", <<>>), Node("paragraph", <<PartialText("one")>>),
     Node("paragraph", <<TextNumber>>), Node("paragraph", <<TextNode("two"), LineBreak>>),
     Node("heading", <<PartialText("Intro")>>)}
\* The children arrays of the list items: text, paragraphs of text, paragraphs with a
\* node that is no text, a nested list, an entry that is no object.
ItemChildren ==
    {<<PartialText("one")>>,
     <<Node("paragraph", <<PartialText("one")>>)>>,
     <<Node("paragraph", <<LineBreak>>)>>,
     <<Node("paragraph", <<PartialText("one")>>), LineBreak, TextNumber>>,
     <<Node("list", <<Node("listitem", <<PartialText("deep")>>)>>)>>,
     <<JStr("loose text")>>}
ListItemNodes ==
    {Node(ty, cs) : ty \in {"listitem", "listItem"}, cs \in ItemChildren}
    \cup {JObj([type |-> JStr(ty)]) : ty \in {"listitem", "listItem"}}
    \cup {JObj([type |-> JStr("listitem"), children |-> JNum(3)])}
ListNodes ==
    {Node("list", <<i>>) : i \in {Node(ty, cs) : ty \in {"listitem", "listItem"},
                                                 cs \in {<<PartialText("one")>>,
                                                         <<Node("paragraph", <<LineBreak>>)>>}}}
    \cup {Node("list", <<Node("paragraph", <<PartialText("one")>>)>>),
          Node("list", <<JStr("item one")>>),
          JObj([type |-> JStr("list"), listType |-> JStr("number"),
                children |-> JArr(<<Node("listitem", <<PartialText("one")>>),
                                    Node("listItem", <<TextNumber>>)>>)]),
          JObj([type |-> JStr("list")])}
TopNodes ==
    ParagraphNodes \cup ListItemNodes \cup ListNodes
    \cup {PartialText("one"), TextNumber, LineBreak, JObj([text |-> JStr("untyped")]),
          JStr("{'type': 'paragraph'}"), JNum(7)}
NodeLists(len) == UNION {[1..n -> TopNodes] : n \in 0..len}
ValidatorInputs(len) ==
    {JArr(ns) : ns \in NodeLists(len)} \cup {JObj([children |-> JArr(ns)]) : ns \in NodeLists(len)}
    \cup ParsedDocs \cup {DocList}

\* gemini.py 128-172, one call.
validate ==
    /\ validated = NotCalled
    /\ validated' = IF validate_lexical_structure_exc(lexical_data) # "none"
                    THEN [called |-> TRUE, kind |-> "raise",
                          exc |-> validate_lexical_structure_exc(lexical_data)]
                    ELSE [called |-> TRUE, kind |-> "return",
                          value |-> validate_lexical_structure(lexical_data)]
    /\ UNCHANGED <<lexical_data, pipeline_vars, finish_vars, chat_vars>>

InitValidator ==
    /\ PipelineInit /\ FinishIdle /\ ChatIdle
    /\ lexical_data \in ValidatorInputs(MaxNodes)
    /\ validated = NotCalled
NextValidator == validate
SpecValidator == InitValidator /\ [][NextValidator]_vars

\* ----------------------------------- fix_list_structure on a top-level list
\* The list nodes a model response can hold: listType and tag absent or with any
\* value, children absent, empty, a list item, or a node that is no list item.
Absent == [j |-> "absent"]
WithField(o, k, v) == IF v = Absent THEN o ELSE SetKey(o, k, v)
ListTypes ==
    {Absent, JStr("bullet"), JStr("number"), JStr("check"), JStr("unordered"), JNum(1), JNull}
ListTags == {Absent, JStr("ul"), JStr("ol")}
ListChildrenInputs ==
    {Absent, JArr(<<>>), JArr(<<Node("listitem", <<PartialText("one")>>)>>),
     JArr(<<Node("paragraph", <<PartialText("one")>>)>>)}
ListInputs ==
    {JObj(WithField(WithField(WithField([type |-> JStr("list")], "listType", lt), "tag", tag),
                    "children", cs)) :
        lt \in ListTypes, tag \in ListTags, cs \in ListChildrenInputs}

InitLists ==
    /\ PipelineInit /\ FinishIdle /\ ChatIdle
    /\ lexical_data \in {JArr(<<n>>) : n \in ListInputs}
    /\ validated = NotCalled
SpecLists == InitLists /\ [][NextValidator]_vars

\* ------------------------------------------------------------ properties
Last(q) == q[Len(q)]
Range(q) == {q[i] : i \in DOMAIN q}

ErrorStage(s) == task[s].pc \in {"return", "failed"}

\* C1: the percentages update_progress writes for a session never decrease, on any
\* branch of the run, and the stored record (what a poller reads) carries the last
\* percentage written.
C1_ProgressNonDecreasing ==
    \A s \in Sessions :
        /\ \A i, j \in 1..Len(written[s]) :
               i < j => written[s][i].progress <= written[s][j].progress
        /\ (s \in DOMAIN progress_tracker /\ written[s] # <<>>)
               => progress_tracker[s].progress = Last(written[s]).progress
        /\ (s \in DOMAIN progress_tracker /\ written[s] = <<>>)
               => progress_tracker[s].progress = 0

C1_Witness ==
    \E s \in Sessions :
        /\ Len(written[s]) = 11
        /\ Last(written[s]).stage = "selection"
        /\ written[s][1].progress = 10

\* The messages a failed hard stage can leave in the error record.
ExtractionErrors ==
    {MsgUnavailable, MsgQuota, <<"[Errno 2] No such file or directory">>}
    \cup {<<"AI processing failed after 3 attempts: ", e>> : e \in {"AttributeError", "ConnectionError"}}
HardFailureMessages ==
    {<<"AI content analysis failed: ">> \o m : m \in ExtractionErrors}
    \cup {<<"Audio narration script generation failed: ">> \o o.msg :
              o \in {x \in NarrationOutcomes : ~x.ok}}
SoftStageCalls == {"keywords", "keywords_failed", "search", "search_failed", "tts", "tts_failed"}

\* A step in which the extraction call, or the narration call, ended without a value.
ExtractionRaised(s) ==
    /\ task[s].pc \in {"open_pdf", "extract"}
    /\ task'[s].pc \notin {"open_pdf", "extract"}
    /\ task'[s].lexical_children = <<>>
NarrationRaised(s) ==
    /\ task[s].pc = "narration"
    /\ task'[s].pc # "narration"
    /\ task'[s].narration = ""
Failed(s) == written[s] # <<>> /\ Last(written[s]).stage = "error"

\* C2: when the extraction call or the narration call raises, the stored record
\* becomes the error record with the failure message; from then on the run invokes
\* no collaborator and writes nothing, and it has never written a selection record.
C2_HardFailureStops ==
    [][\A s \in Sessions :
          /\ (ExtractionRaised(s) \/ NarrationRaised(s))
                => /\ Failed(s)'
                   /\ s \in DOMAIN progress_tracker'
                   /\ progress_tracker'[s] = Last(written'[s])
                   /\ progress_tracker'[s].progress = 100
                   /\ progress_tracker'[s].message \in HardFailureMessages
                   /\ Head(progress_tracker'[s].message) =
                         IF NarrationRaised(s) THEN "Audio narration script generation failed: "
                         ELSE "AI content analysis failed: "
          /\ Failed(s)
                => /\ calls'[s] = calls[s]
                   /\ written'[s] = written[s]
          /\ Failed(s)'
                => /\ \A i \in 1..Len(written'[s]) : written'[s][i].stage # "selection"
                   /\ Range(calls'[s]) \cap SoftStageCalls = {}
                   /\ Head(Last(written'[s]).message) = "AI content analysis failed: "
                          => "narration" \notin Range(calls'[s])
      ]_vars

C2_Witness ==
    \E s \in Sessions :
        /\ task[s].pc = "failed"
        /\ "narration" \in Range(calls[s])
        /\ s \in DOMAIN progress_tracker
        /\ progress_tracker[s].stage = "error"

PastSoftStages(s) == task[s].pc \in {"finalize", "store", "done", "crashed"}

\* C3: once extraction and narration have succeeded, no failure of the keyword, search
\* or TTS call writes an error record or stops the run; a failed stage leaves its
\* default (fallback keywords, no videos, no audio path); the last record written is
\* (selection, 100), and a run that completes leaves it in the store with the draft.
C3_SoftFailuresDegrade ==
    \A s \in Sessions :
        /\ Range(calls[s]) \cap SoftStageCalls # {}
              => /\ ~ErrorStage(s)
                 /\ \A i \in 1..Len(written[s]) : written[s][i].stage # "error"
        /\ PastSoftStages(s)
              => /\ "keywords_failed" \in Range(calls[s]) => task[s].keywords = KeywordsFallbackGemini
                 /\ "search_failed" \in Range(calls[s]) => task[s].youtube_videos = <<>>
                 /\ "tts_failed" \in Range(calls[s]) => task[s].audio_path = "None"
        /\ task[s].pc \in {"store", "done", "crashed"}
              => /\ Last(written[s]).stage = "selection"
                 /\ Last(written[s]).progress = 100
        /\ task[s].pc = "crashed" => s \in cancelled
        /\ (task[s].pc = "done" /\ s \in DOMAIN progress_tracker)
              => /\ progress_tracker[s].stage = "selection"
                 /\ progress_tracker[s].progress = 100
                 /\ progress_tracker[s]["keywords"] = task[s].keywords
                 /\ progress_tracker[s]["youtube_videos"] = task[s].youtube_videos

C3_Witness ==
    \E s \in Sessions :
        /\ task[s].pc = "done"
        /\ {"keywords_failed", "search_failed", "tts_failed"} \subseteq Range(calls[s])
        /\ s \in DOMAIN progress_tracker
        /\ progress_tracker[s].stage = "selection"
        /\ progress_tracker[s]["youtube_videos"] = <<>>

\* C4: once get_lesson_result has returned a session's result, a result retrieval and
\* a progress lookup for that id answer not-found, whatever happens afterwards.
C4_SingleConsumption ==
    \A s \in consumed :
        /\ get_lesson_result_response(progress_tracker, s).status = 404
        /\ get_progress_response(progress_tracker, s).status = 404

C4_Witness ==
    \E s \in consumed :
        /\ task[s].pc = "done"
        /\ \E w \in Sockets : ws[w].state = "open" /\ ws[w].sid = s

TerminalSuccess(s) ==
    /\ s \in DOMAIN progress_tracker
    /\ progress_tracker[s].stage = "selection"
    /\ progress_tracker[s].progress >= 100

\* C5: a result retrieval for a session whose record is not at (selection, 100) is
\* answered 202 and leaves the store as it is; a retrieval changes the store only by
\* deleting the record whose result it returns.
C5_RetrievalBeforeSuccess ==
    [][\A s \in Sessions :
          get_lesson_result(s)
             => /\ (s \in DOMAIN progress_tracker /\ ~TerminalSuccess(s))
                      => /\ get_lesson_result_response(progress_tracker, s).status = 202
                         /\ progress_tracker' = progress_tracker
                /\ progress_tracker' # progress_tracker
                      => /\ get_lesson_result_response(progress_tracker, s).status = 200
                         /\ progress_tracker' = DelKey(progress_tracker, s)
      ]_vars

C5_Witness ==
    \E s \in Sessions :
        /\ cur = 0
        /\ s \in DOMAIN progress_tracker
        /\ progress_tracker[s].stage = "error"
        /\ get_lesson_result_response(progress_tracker, s).status = 202

ThreeMalformed(s) ==
    /\ Len(calls[s]) >= MaxAttempts
    /\ \A i \in 1..MaxAttempts : calls[s][i] = "extraction_malformed"

\* C6: when all three attempts of the extraction collaborator return malformed output,
\* pdf_to_lexical returns the fallback document: the run goes on with it (its second
\* record is the 40% one, not an error) and the stored draft holds it.
C6_MalformedGivesFallback ==
    \A s \in Sessions :
        ThreeMalformed(s)
           => /\ task[s].lexical_children = create_fallback_lesson_structure
              /\ written[s][2].stage = "processing"
              /\ (s \in DOMAIN progress_tracker /\ "lesson_data" \in DOMAIN progress_tracker[s])
                    => progress_tracker[s]["lesson_data"].content.root.children
                           = create_fallback_lesson_structure

QuotaRecord ==
    [stage |-> "error", progress |-> 100,
     message |-> <<"AI content analysis failed: ">> \o MsgQuota]

\* C7: a quota failure of the extraction collaborator is the last collaborator call
\* of the run; the run ends in the error record with the quota message, and that
\* record is the last one it writes.
C7_QuotaStopsAtOnce ==
    \A s \in Sessions :
        \A i \in 1..Len(calls[s]) :
            calls[s][i] = "extraction_QuotaExceeded"
               => /\ i = Len(calls[s])
                  /\ ErrorStage(s)
                  /\ Last(written[s]) = QuotaRecord
                  /\ Len(written[s]) = 2

C7_Witness ==
    \E s \in Sessions :
        /\ calls[s] = <<"extraction_ServerError", "extraction_QuotaExceeded">>
        /\ task[s].pc = "failed"
        /\ s \in DOMAIN progress_tracker
        /\ progress_tracker[s] = QuotaRecord

\* The socket registered for s is there and its client has not gone.
LiveSocket(s) == s \in DOMAIN active_connections /\ SocketOpen(active_connections[s])

\* C8: a cancellation of a session that has a live registered connection sends that
\* connection the cancelled event, or closes it.
C8_CancelNotifiesListener ==
    [][\A s \in Sessions :
          (s \notin cancelled /\ s \in cancelled' /\ LiveSocket(s))
             => \/ sent' = <<[to |-> active_connections[s], data |-> CancellationData]>>
                \/ ws'[active_connections[s]].state \in {"closed", "exited"}
      ]_vars

\* C9: once a session is cancelled the store never holds a record for it again, the
\* run writes no further record for it, and it does not reach selection.
C9_CancelStopsRun ==
    [][\A s \in Sessions :
          s \in cancelled'
             => /\ s \notin DOMAIN progress_tracker'
                /\ s \in cancelled => written'[s] = written[s]
      ]_vars

\* The socket that registered last for s (0: none has).
LatestSocket(s) ==
    LET reg == {w \in Sockets : ws[w].sid = s /\ ws[w].state \notin {"idle", "accepting"}}
    IN  IF reg = {} THEN 0 ELSE CHOOSE w \in reg : \A v \in reg : v <= w

\* C10: a connection that registers for a session with a record is sent that record
\* first, and every record written afterwards is sent to it while it is open and the
\* latest for the id (stated here for sessions that were not cancelled).
C10_StreamGetsEveryUpdate ==
    [][\A s \in Sessions :
          /\ \A w \in Sockets :
                (ws[w].state = "accepting" /\ ws'[w].state = "open" /\ ws[w].sid = s
                 /\ s \in DOMAIN progress_tracker)
                   => sent' = <<[to |-> w, data |-> progress_tracker[s]]>>
          /\ (written'[s] # written[s] /\ s \notin cancelled
              /\ LatestSocket(s) # 0 /\ ws[LatestSocket(s)].state = "open")
                => sent' = <<[to |-> LatestSocket(s), data |-> Last(written'[s])]>>
      ]_vars

\* The sockets that registered for s before its latest one.
Replaced(s) ==
    {v \in Sockets : /\ v < LatestSocket(s)
                     /\ ws[v].sid = s
                     /\ ws[v].state \notin {"idle", "accepting"}}

\* C11: after a second connection B has registered for an id that had connection A,
\* every record written for the id while B is open is sent to B, and to B only,
\* whatever A does (stated for sessions that were not cancelled).
C11_LastConnectWins ==
    [][\A s \in Sessions :
          (/\ written'[s] # written[s]
           /\ s \notin cancelled
           /\ Replaced(s) # {}
           /\ ws[LatestSocket(s)].state = "open")
             => sent' = <<[to |-> LatestSocket(s), data |-> Last(written'[s])]>>
      ]_vars

\* A push of this step fails: the socket registered for s has lost its client.
FailedPush(s) ==
    /\ written'[s] # written[s]
    /\ s \in DOMAIN active_connections
    /\ ~SocketOpen(active_connections[s])

\* C12: a step of a progress socket (connect, registration and replay, close, handler
\* exit) leaves the progress store as it is, and a failed push leaves in the store
\* exactly the record whose push failed.
C12_ConnectionEventsKeepStore ==
    [][/\ ws' # ws => progress_tracker' = progress_tracker
       /\ \A s \in Sessions :
             FailedPush(s)
                => /\ sent' = <<>>
                   /\ s \notin DOMAIN active_connections'
                   /\ progress_tracker' = SetKey(progress_tracker, s, Last(written'[s]))
      ]_vars

C12_Witness ==
    \E s \in Sessions, w \in Sockets :
        /\ ws[w] = [state |-> "closed", sid |-> s]
        /\ \A v \in Sockets : ws[v].state # "exited"
        /\ s \notin cancelled
        /\ s \notin DOMAIN active_connections
        /\ s \in DOMAIN progress_tracker
        /\ written[s] # <<>>
        /\ progress_tracker[s] = Last(written[s])

Terminated(s) == task[s].pc \in {"done", "failed", "crashed"}

\* C13: when a run of generate_lesson_task has ended, at selection, after an error
\* record or by an exception, its uploaded file is no longer in temp/.
C13_TempFileReleased ==
    \A s \in Sessions : Terminated(s) => s \notin temp_files

C13_Witness ==
    \E s \in Sessions :
        /\ task[s].pc = "failed"
        /\ cancelled = {}
        /\ s \notin temp_files
        /\ s \in DOMAIN progress_tracker

\* What /finish/ was given and what its collaborators did.
DraftChildren == finish_request.lesson_data.content.root.children
AudioAttached == finish_outcomes.audio # NotCalled /\ ~finish_outcomes.audio.raised
AttachedVideos ==
    {i \in DOMAIN finish_outcomes.videos :
        /\ finish_outcomes.videos[i].download = "ok"
        /\ ~finish_outcomes.videos[i].upload.raised}
\* The k-th attached video, in the order of selected_videos.
NthAttached(k) ==
    CHOOSE i \in AttachedVideos : Cardinality({j \in AttachedVideos : j <= i}) = k

\* C14: the children of every document /finish/ passes to the lesson store are the
\* audio node if the audio upload succeeded, then the draft's children as they were,
\* then one node per selected video that was downloaded and uploaded, in the order of
\* the selection.
C14_FinalChildrenOrder ==
    upload_lesson_arg # <<>>
       => LET ch == Last(upload_lesson_arg).content.root.children
              a == IF AudioAttached THEN 1 ELSE 0
              d == Len(DraftChildren)
          IN  /\ Len(upload_lesson_arg) = 1
              /\ Len(ch) = a + d + Cardinality(AttachedVideos)
              /\ AudioAttached => ch[1].type = "upload" /\ ch[1].id = <<"audio">>
              /\ \A i \in 1..d : ch[a + i] = DraftChildren[i]
              /\ \A k \in 1..Cardinality(AttachedVideos) :
                    /\ ch[a + d + k].type = "upload"
                    /\ ch[a + d + k].id = <<"video", NthAttached(k) - 1>>

C14_Witness ==
    /\ upload_lesson_arg # <<>>
    /\ AudioAttached
    /\ DraftChildren = <<ParagraphB, ParagraphA>>
    /\ Len(finish_outcomes.videos) = 2
    /\ AttachedVideos = {2}
    /\ Len(Last(upload_lesson_arg).content.root.children) = 4

\* C15: /finish/ answers 200 exactly when the lesson store saved the document; a
\* failed audio upload or failed videos never fail the call, and a failed save always
\* does, with the 500 answer and nothing saved.
C15_FinishFailsOnlyOnSave ==
    finish_response # NoResponse
       => /\ finish_response.status = 200 <=> finish_outcomes.save = "ok"
          /\ finish_response.status \in {200, 500}
          /\ finish_response.status = 500
                => \/ finish_outcomes.save = "raise"
                   \/ "content" \notin DOMAIN finish_request.lesson_data
          /\ finish_outcomes.save = "ok"
                => /\ lesson_store = upload_lesson_arg
                   /\ finish_response.lesson = Last(lesson_store)
          /\ finish_outcomes.save # "ok"
                => /\ lesson_store = <<>>
                   /\ Head(finish_response.detail) = "Failed to finish lesson: "

C15_Witness ==
    /\ finish_response.status = 200
    /\ finish_outcomes.audio # NotCalled
    /\ finish_outcomes.audio.raised
    /\ Len(finish_outcomes.videos) = 2
    /\ finish_outcomes.videos[1].download = "raise"
    /\ AttachedVideos = {2}

Untagged(e) == [role |-> e.role, content |-> e.content]
AddedTo(sid) == IF sid \in DOMAIN added THEN added[sid] ELSE <<>>

\* C16: after any sequence of add_message calls, from HTTP turns and streaming turns
\* in any interleaving, a session's history has at most 20 entries, and they are the
\* entries added last, in the order in which they were added.
C16_HistoryCapped ==
    \A sid \in DOMAIN sessions :
        LET h == sessions[sid].history
            a == AddedTo(sid)
        IN  /\ Len(h) <= HistoryCap
            /\ Len(h) = IF Len(a) < HistoryCap THEN Len(a) ELSE HistoryCap
            /\ \A i \in 1..Len(h) : h[i] = Untagged(a[Len(a) - Len(h) + i])

C16_Witness ==
    \E sid \in DOMAIN sessions :
        /\ Len(AddedTo(sid)) = HistoryCap + 2
        /\ Len(sessions[sid].history) = HistoryCap
        /\ sessions[sid].history[1] = Untagged(added[sid][3])
        /\ \E i \in 1..(HistoryCap - 1) :
              /\ sessions[sid].history[i].role = "user"
              /\ sessions[sid].history[i + 1].role = "user"

\* The steps in which an /api/chat/send call starts and returns.
HttpTurnStarts == http_turn.pc = "idle" /\ http_turn'.pc # "idle"
HttpTurnReturns == http_turn.pc # "idle" /\ http_turn'.pc = "idle"
EntriesOfTurn(log, n) == SelectSeq(log, LAMBDA e : e.turn = n)
Roles(q) == [i \in DOMAIN q |-> q[i].role]

\* C17: an HTTP chat turn without a conversation id, or with one no session has, works
\* on a new session, and a turn with an id an earlier turn returned works on that
\* session; the turn returns the id of its session and has added to it exactly one
\* user entry and one assistant entry, so a session used by HTTP turns only holds one
\* user/assistant pair per turn (4 entries after two turns).
C17_TurnsLandInTheirSession ==
    [][/\ HttpTurnStarts
          => LET c == http_turn'.conversation_id
                 sid == http_turn'.session_id
             IN  IF c \in DOMAIN sessions
                 THEN sid = c /\ DOMAIN sessions' = DOMAIN sessions
                 ELSE /\ sid \notin DOMAIN sessions
                      /\ DOMAIN sessions' = DOMAIN sessions \cup {sid}
                      /\ Roles(sessions'[sid].history) = <<"user">>
       /\ HttpTurnReturns
          => LET sid == http_turn.session_id
                 n == http_turn.n
             IN  /\ Len(chat_sent') = 1
                 /\ chat_sent'[1].body.session_id = sid
                 /\ sid \in client_ids'
                 /\ Roles(EntriesOfTurn(added'[sid], n)) = <<"user", "assistant">>
                 /\ \A o \in DOMAIN added' \ {sid} : EntriesOfTurn(added'[o], n) = <<>>
                 /\ ws_turn'.session_id # sid
                       => /\ sessions'[sid].history = [i \in DOMAIN added'[sid] |->
                                                          Untagged(added'[sid][i])]
                          /\ \A i \in DOMAIN added'[sid] :
                                added'[sid][i].role = IF i % 2 = 1 THEN "user" ELSE "assistant"
      ]_vars

C17_Witness ==
    \E sid \in client_ids :
        /\ turns_left.http = 0
        /\ http_turn = NoTurn
        /\ DOMAIN sessions = {sid}
        /\ Roles(sessions[sid].history) = <<"user", "assistant", "user", "assistant">>
        /\ chat_sent # <<>>
        /\ chat_sent[1].channel = "http"
        /\ chat_sent[1].body.session_id = sid

\* C18: the lesson context of a chat session is fetched from the lesson store at most
\* once, over all its turns.
C18_ContextFetchedOnce ==
    \A sid \in DOMAIN fetches : fetches[sid] <= 1

\* The step in which the LLM call of an HTTP turn ends without a reply.
HttpLlmFails == http_turn.pc = "llm" /\ http_turn'.pc \notin {"llm", "related"}

\* C19: when the LLM is unavailable or raises in an HTTP chat turn, the turn returns a
\* result whose reply is the fixed fallback text, and the session's history holds the
\* user entry of the turn and, last, the fallback assistant entry.
C19_LlmFailureGivesFallback ==
    [][HttpLlmFails
          => LET sid == http_turn.session_id
                 h == sessions'[sid].history
             IN  /\ http_turn' = NoTurn
                 /\ Len(chat_sent') = 1
                 /\ chat_sent'[1].channel = "http"
                 /\ "response" \in DOMAIN chat_sent'[1].body
                 /\ chat_sent'[1].body.response = FallbackResponse
                 /\ chat_sent'[1].body.session_id = sid
                 /\ Last(h) = [role |-> "assistant", content |-> FallbackResponse]
                 /\ \E i \in DOMAIN h : h[i] = [role |-> "user", content |-> Message(http_turn.n)]
                 /\ Len(added'[sid]) = Len(added[sid]) + 1
      ]_vars

C19_Witness ==
    /\ Len(chat_sent) = 1
    /\ chat_sent[1].channel = "http"
    /\ chat_sent[1].cause = MsgLlmUnavailable
    /\ chat_sent[1].body.response = FallbackResponse
    /\ Last(sessions[chat_sent[1].body.session_id].history).content = FallbackResponse

\* What the client would have been sent had the exception carried the text e.
WithErrorText(x, e) ==
    IF x.channel = "http" THEN generate_response_fallback(x.body.session_id, e)
    ELSE ws_error_event(e)

\* C20: what a chat client is sent after an internal failure is the same whatever the
\* text of the exception, on the HTTP turn and on the streaming channel.
C20_FailureTextHidden ==
    \A i \in DOMAIN chat_sent :
        chat_sent[i].cause # <<>>
           => \A e \in LlmErrors \cup StreamErrors :
                 chat_sent[i].body = WithErrorText(chat_sent[i], e)

\* The events the last step sent on the streaming channel, by type.
WsTypesSent(out) == [i \in DOMAIN out |-> out[i].body.type]
WsMessageArrives == ws_turn.pc = "idle" /\ ws_turn'.pc \in {"context", "stream"}
WsContextReturns == ws_turn.pc = "context" /\ ws_turn'.pc = "stream"
WsTurnEnds == ws_turn.pc = "stream" /\ ws_turn'.pc = "idle"
\* Every other step of the chat service moves one of the two handlers.
WsPingArrives == ws_turn.pc = "idle" /\ UNCHANGED <<http_turn, ws_turn>> /\ chat_sent' # chat_sent

\* C21: on the chat streaming channel a message event with content and lesson id is
\* answered by one typing event and then either token events followed by one complete
\* event, or one error event with no token event before it; a ping event is answered
\* by one pong event.
C21_StreamingAnswerShape ==
    [][/\ WsMessageArrives => WsTypesSent(chat_sent') = <<"typing">>
       /\ WsContextReturns => chat_sent' = <<>>
       /\ WsTurnEnds
          => LET ty == WsTypesSent(chat_sent')
             IN  \/ ty = <<"error">>
                 \/ /\ ty # <<>>
                    /\ Last(ty) = "complete"
                    /\ \A i \in 1..(Len(ty) - 1) : ty[i] = "token"
       /\ WsPingArrives => WsTypesSent(chat_sent') = <<"pong">>
      ]_vars

Returned == validated.called /\ validated.kind = "return"

\* C22: validate_lexical_structure never raises: on every parsed value it returns a
\* list of nodes.
C22_ValidatorNeverRaises ==
    validated.called => validated.kind = "return" /\ DOMAIN validated.value = 1..Len(validated.value)

\* The nodes of a tree, at every depth.
RECURSIVE NodesIn(_)
NodesIn(ns) ==
    UNION {{ns[i]} \cup (IF IsDict(ns[i]) /\ "children" \in DOMAIN ns[i].o /\ IsList(ns[i].o["children"])
                         THEN NodesIn(ns[i].o["children"].a) ELSE {})
           : i \in DOMAIN ns}
KindOf(n) == IF IsDict(n) /\ "type" \in DOMAIN n.o /\ n.o["type"].j = "str" THEN n.o["type"].s ELSE ""
HasRequiredFields(n) ==
    /\ KindOf(n) = "text"
          => /\ {"version", "detail", "format", "mode", "style", "text"} \subseteq DOMAIN n.o
             /\ n.o["text"].j = "str"
    /\ KindOf(n) \in {"paragraph", "heading", "list", "listitem"}
          => {"version", "direction", "format", "indent"} \subseteq DOMAIN n.o

\* C23: in the tree validate_lexical_structure returns, every node at every depth has
\* the required fields of its kind.
C23_RequiredFieldsEverywhere ==
    Returned => \A n \in NodesIn(validated.value) : HasRequiredFields(n)

ChildrenOf(n) == IF "children" \in DOMAIN n.o /\ IsList(n.o["children"]) THEN n.o["children"].a ELSE <<>>

\* C24: in the tree validate_lexical_structure returns, the children of every list
\* node are all listitem nodes and the children of every listitem node are all text
\* nodes.
C24_ListsHoldItemsHoldText ==
    Returned
       => \A n \in NodesIn(validated.value) :
             /\ KindOf(n) = "list" => \A i \in DOMAIN ChildrenOf(n) : KindOf(ChildrenOf(n)[i]) = "listitem"
             /\ KindOf(n) = "listitem" => \A i \in DOMAIN ChildrenOf(n) : KindOf(ChildrenOf(n)[i]) = "text"

\* The run of s is over with its terminal record in the store: (selection, 100) and the
\* result when extraction and narration gave a value, (error, 100) otherwise.
TerminalRecord(s) ==
    /\ task[s].pc \in {"done", "failed"}
    /\ s \in DOMAIN progress_tracker
    /\ progress_tracker[s].progress = 100
    /\ progress_tracker[s].stage = Last(written[s]).stage
    /\ IF task[s].lexical_children # <<>> /\ task[s].narration # ""
       THEN /\ task[s].pc = "done"
            /\ progress_tracker[s].stage = "selection"
            /\ progress_tracker[s]["lesson_data"].narration # ""
            /\ ~(\E i \in DOMAIN calls[s] : calls[s][i] = "search")
                  => progress_tracker[s]["youtube_videos"] = <<>>
       ELSE /\ task[s].pc = "failed"
            /\ progress_tracker[s].stage = "error"

\* C25: when no client cancels, every accepted submission ends with a terminal
\* record in the progress store: (selection, 100) with the narration and, when no video
\* was found, an empty candidate list if extraction and narration succeeded, and
\* (error, 100) otherwise.
C25_SubmissionTerminates ==
    \A s \in Sessions :
        (task[s].pc = "queued") ~> TerminalRecord(s)

C25_Witness ==
    \E s \in Sessions :
        /\ TerminalRecord(s)
        /\ s \notin cancelled
        /\ progress_tracker[s].stage = "selection"
        /\ progress_tracker[s]["youtube_videos"] = <<>>
        /\ "tts" \in Range(calls[s])

\* The record generate_lesson_task writes before it invokes a collaborator.
StageStartMessage(call) ==
    IF call \in {"narration"} THEN <<"Generating audio narration script...">>
    ELSE IF call \in {"keywords", "keywords_failed"} THEN <<"Extracting keywords...">>
    ELSE IF call \in {"search", "search_failed"} THEN <<"Searching for relevant videos...">>
    ELSE IF call \in {"tts", "tts_failed"} THEN <<"Generating audio narration file...">>
    ELSE <<"Analyzing PDF content...">>
Listening(s) == s \in DOMAIN active_connections /\ SocketOpen(active_connections[s])

\* C26: a record of the run is in the progress store when it is pushed, and it is
\* pushed (to a listener that is there) before the collaborator of the stage it opens
\* is invoked; so the store, while it has the session, never shows less than a pushed
\* percentage.
C26_StoreBeforePushBeforeWork ==
    [][\A s \in Sessions :
          /\ written'[s] # written[s]
                => /\ written'[s] = Append(written[s], Last(written'[s]))
                   /\ s \in DOMAIN progress_tracker'
                   /\ progress_tracker'[s] = Last(written'[s])
                   /\ IF Listening(s)
                      THEN sent' = <<[to |-> active_connections[s], data |-> progress_tracker'[s]]>>
                      ELSE sent' = <<>>
                   /\ calls'[s] # calls[s] => written[s] # <<>>
          /\ calls'[s] # calls[s]
                => /\ written[s] # <<>>
                   /\ Last(written[s]).message = StageStartMessage(Last(calls'[s]))
                   /\ s \notin cancelled => (s \in DOMAIN progress_tracker
                                             /\ progress_tracker[s] = Last(written[s]))
          /\ (sent' # <<>> /\ ws[sent'[1].to].sid = s)
                => \/ get_progress_response(progress_tracker', s).status = 404
                   \/ get_progress_response(progress_tracker', s).content.progress
                          >= sent'[1].data.progress
          /\ s \in DOMAIN progress_tracker
                => \A i \in DOMAIN written[s] :
                      get_progress_response(progress_tracker, s).content.progress
                          >= written[s][i].progress
      ]_vars

C26_Witness ==
    \E s \in Sessions :
        /\ sent # <<>>
        /\ ws[sent[1].to].sid = s
        /\ sent[1].data.message = <<"Searching for relevant videos...">>
        /\ s \in DOMAIN progress_tracker
        /\ progress_tracker[s] = sent[1].data
        /\ Last(calls[s]) \in {"keywords", "keywords_failed"}

\* A step of the run of s whose push fails: the registered socket is closed.
PushFails(s) ==
    /\ written'[s] # written[s]
    /\ s \in DOMAIN active_connections
    /\ ~SocketOpen(active_connections[s])
\* What each position of the run hands over to, whoever listens.
NextPositions(pc) ==
    IF pc = "queued" THEN {"open_pdf"}
    ELSE IF pc \in {"open_pdf", "extract"} THEN {"narration_start", "return"}
    ELSE IF pc = "narration_start" THEN {"narration"}
    ELSE IF pc = "narration" THEN {"keywords_start", "return"}
    ELSE IF pc = "keywords_start" THEN {"keywords"}
    ELSE IF pc = "keywords" THEN {"youtube_start"}
    ELSE IF pc = "youtube_start" THEN {"youtube"}
    ELSE IF pc = "youtube" THEN {"tts_start"}
    ELSE IF pc = "tts_start" THEN {"tts"}
    ELSE IF pc = "tts" THEN {"finalize"}
    ELSE IF pc = "finalize" THEN {"store"}
    ELSE {}

\* C27: a push that fails because the connection is closed is caught: the id is removed
\* from the registry, nothing is sent, the store holds the update, and the run goes on
\* to the position it would have reached without a listener; the only error records
\* are those of a failed extraction or narration.
C27_FailedPushIsHarmless ==
    [][\A s \in Sessions :
          /\ PushFails(s)
                => /\ s \notin DOMAIN active_connections'
                   /\ sent' = <<>>
                   /\ s \in DOMAIN progress_tracker'
                   /\ progress_tracker'[s] = Last(written'[s])
                   /\ task'[s].pc \in NextPositions(task[s].pc)
                   /\ task'[s].pc = "return" <=> (ExtractionRaised(s) \/ NarrationRaised(s))
                   /\ Last(written'[s]).stage = "error" <=> task'[s].pc = "return"
          /\ (written'[s] # written[s] /\ s \notin DOMAIN active_connections)
                => /\ task'[s].pc \in NextPositions(task[s].pc)
                   /\ progress_tracker'[s] = Last(written'[s])
                   /\ Last(written'[s]).stage = "error" <=> task'[s].pc = "return"
      ]_vars

C27_Witness ==
    \E s \in Sessions :
        /\ task[s].pc = "done"
        /\ cancelled = {}
        /\ s \notin DOMAIN active_connections
        /\ \E w \in Sockets : /\ ws[w] = [state |-> "closed", sid |-> s]
                              /\ \A v \in Sockets \ {w} : ws[v].state = "idle"
        /\ s \in DOMAIN progress_tracker
        /\ progress_tracker[s].stage = "selection"

\* The calls of the extraction collaborator in the run of s, in order.
ExtractionCalls(s) == SelectSeq(calls[s], LAMBDA c : c \in ExtractionLabels)
TransientCalls == {"extraction_ServerError", "extraction_ConnectionError"}
ExtractionOver(s) == task[s].pc \notin {"none", "queued", "open_pdf", "extract"}

\* C28: pdf_to_lexical calls the extraction collaborator at most 3 times and stops at
\* the first attempt that succeeds; when all 3 attempts fail, transiently or with
\* malformed output in any mix, it returns the fallback document if the third failure
\* is malformed output and raises if the third failure is transient.
C28_ThreeAttemptsThenFallbackOrFailure ==
    \A s \in Sessions :
        LET ec == ExtractionCalls(s)
        IN  /\ Len(ec) <= MaxAttempts
            /\ \A i \in 1..(Len(ec) - 1) : ec[i] # "extraction_ok"
            /\ (/\ ExtractionOver(s)
                /\ Len(ec) = MaxAttempts
                /\ \A i \in 1..MaxAttempts : ec[i] \in TransientCalls \cup {"extraction_malformed"})
                  => IF ec[MaxAttempts] = "extraction_malformed"
                     THEN task[s].lexical_children = create_fallback_lesson_structure
                     ELSE /\ task[s].lexical_children = <<>>
                          /\ Last(written[s]).stage = "error"

\* The place of a collaborator in the order of the stages.
StageRank(call) ==
    IF call \in ExtractionLabels THEN 1
    ELSE IF call = "narration" THEN 2
    ELSE IF call \in {"keywords", "keywords_failed"} THEN 3
    ELSE IF call \in {"search", "search_failed"} THEN 4
    ELSE 5

\* C29: within a run the collaborators are invoked in the order extraction, narration,
\* keywords, video search, TTS, each at most once (the extraction collaborator within
\* the one call of pdf_to_lexical), none is skipped, and one is invoked only when the
\* stage before it has left its value.
C29_StagesInOrder ==
    \A s \in Sessions :
        LET c == calls[s]
        IN  /\ \A i, j \in DOMAIN c :
                  i < j => /\ StageRank(c[i]) <= StageRank(c[j])
                           /\ StageRank(c[i]) = StageRank(c[j]) => StageRank(c[i]) = 1
            /\ \A j \in DOMAIN c :
                  IF StageRank(c[j]) = 1 THEN j <= MaxAttempts
                  ELSE j > 1 /\ StageRank(c[j - 1]) = StageRank(c[j]) - 1
            /\ \A j \in DOMAIN c :
                  /\ StageRank(c[j]) >= 2 => task[s].lexical_children # <<>>
                  /\ StageRank(c[j]) >= 3 => task[s].narration # ""
                  /\ StageRank(c[j]) >= 4 => task[s].keywords # <<>>
                  /\ StageRank(c[j]) >= 5 => task[s].pc \notin {"youtube_start", "youtube"}

C29_Witness ==
    \E s \in Sessions :
        /\ task[s].pc = "done"
        /\ Len(calls[s]) = 6
        /\ calls[s][1] = "extraction_ServerError"
        /\ calls[s][2] = "extraction_ok"
        /\ [i \in 1..4 |-> StageRank(calls[s][i + 2])] = <<2, 3, 4, 5>>

\* C30: when the keyword collaborator fails during a run, the keyword list used for the
\* video search and stored with the result is the fallback list seeded with the lesson
\* title.
C30_KeywordFallbackHasTitle ==
    \A s \in Sessions :
        "keywords_failed" \in Range(calls[s])
           => /\ TitleLower \in Range(task[s].keywords)
              /\ (s \in DOMAIN progress_tracker /\ "keywords" \in DOMAIN progress_tracker[s])
                    => TitleLower \in Range(progress_tracker[s]["keywords"])

ResultFields == {"lesson_data", "keywords", "youtube_videos"}

HasResult(record) == DOMAIN record \cap ResultFields # {}

\* C31: a record of the progress store carries a result (lesson data, keywords,
\* candidate videos) only if its stage is selection and its progress is 100.
C31_ResultOnlyAtSelection ==
    \A s \in DOMAIN progress_tracker :
        HasResult(progress_tracker[s])
           => /\ progress_tracker[s].stage = "selection"
              /\ progress_tracker[s].progress = 100

C31_Witness ==
    \E s \in DOMAIN progress_tracker :
        /\ ResultFields \subseteq DOMAIN progress_tracker[s]
        /\ task[s].pc = "done"
        /\ s \in cancelled

\* C32: the last step of a successful run is atomic for the other requests: whenever
\* another request can run, a record at (selection, 100) holds the result, so a result
\* retrieval on such a record returns the result, and the run never fails while it
\* attaches the result.
C32_FinalStepAtomic ==
    \A s \in Sessions :
        /\ (cur = 0 /\ TerminalSuccess(s))
              => /\ HasResult(progress_tracker[s])
                 /\ get_lesson_result_response(progress_tracker, s).status = 200
        /\ task[s].pc # "crashed"

SweepAnswers ==
    /\ chat_sent' # chat_sent
    /\ Len(chat_sent') = 1
    /\ "active_sessions" \in DOMAIN chat_sent'[1].body

HadTurnWithin(sid, hours) ==
    \E i \in DOMAIN AddedTo(sid) : (now - added[sid][i].at) * HoursPerTick <= hours

\* C33: a call of the sweep removes exactly the chat sessions whose time since the last
\* activity is over the limit; every other session stays in the map with its history
\* and its context cache as they were, and a session that had a turn within the limit
\* is not removed.
C33_SweepRemovesExactlyExpired ==
    [][SweepAnswers
         => /\ DOMAIN sessions' = {id \in DOMAIN sessions : Age(sessions[id]) <= MaxAgeHours}
            /\ \A id \in DOMAIN sessions' : sessions'[id] = sessions[id]
            /\ \A id \in DOMAIN sessions :
                  HadTurnWithin(id, MaxAgeHours) => id \in DOMAIN sessions']_vars

C33_Witness ==
    /\ Len(chat_sent) = 1
    /\ "active_sessions" \in DOMAIN chat_sent[1].body
    /\ chat_sent[1].body.message[2] = 1
    /\ \E id \in DOMAIN sessions :
          /\ Len(sessions[id].history) = 2
          /\ sessions[id].context_cache # <<>>
          /\ Age(sessions[id]) > 0

\* The list node handed to validate_lexical_structure and the node it returns for it.
ListGiven == lexical_data.a[1].o
ListNormalized == validated.value[1].o
ListTypeGiven == IF "listType" \in DOMAIN ListGiven THEN ListGiven["listType"] ELSE Absent

\* C34 as stated: after normalization every list node is a bullet list with the
\* unordered tag, whatever its listType was (bullet, number, anything else, or none).
C34_AlwaysBulletUnordered ==
    Returned
       => /\ ListNormalized["listType"] = JStr("bullet")
          /\ ListNormalized["tag"] = JStr("ul")

\* C34 amended: after normalization a list node with listType bullet has the unordered
\* tag, a list node with listType number keeps number and has the ordered tag, and any
\* other or missing listType is replaced by bullet with the unordered tag.
C34_TagFollowsListType ==
    Returned
       => IF ListTypeGiven = JStr("number")
          THEN /\ ListNormalized["listType"] = JStr("number")
               /\ ListNormalized["tag"] = JStr("ol")
          ELSE /\ ListNormalized["listType"] = JStr("bullet")
               /\ ListNormalized["tag"] = JStr("ul")

C34_Witness ==
    /\ Returned
    /\ ListTypeGiven = JStr("number")
    /\ "tag" \in DOMAIN ListGiven /\ ListGiven["tag"] = JStr("ul")
    /\ ListNormalized["tag"] = JStr("ol")

SubmissionFailed(s) == task[s].pc \in {"rejected", "submit_failed"}

\* C35: a submission that is rejected or that fails inside process_pdf leaves no record
\* in the progress store and no temporary file and starts no run; the store holds a
\* record only for submissions that returned a session id.
C35_FailedSubmissionLeavesNothing ==
    \A s \in Sessions :
        /\ SubmissionFailed(s)
              => /\ s \notin DOMAIN progress_tracker
                 /\ s \notin temp_files
                 /\ written[s] = <<>> /\ calls[s] = <<>>
        /\ s \in DOMAIN progress_tracker => Known(s)

\* A step that belongs neither to the run of a followed session, nor to a cancellation
\* of it, nor to one of its connections: among them, the cancellation of some other
\* session.
StepOfOthers == task' = task /\ cancelled' = cancelled /\ ws' = ws

\* C36: cancelling another session leaves a session as it was: its record, its
\* registered connection and its uploaded file in temp/ are the same before and after,
\* so its run proceeds as if the other session had not been cancelled.
C36_OtherCancelKeepsSession ==
    [][StepOfOthers
          => \A s \in Sessions :
                s \in temp_files
                   => /\ s \in temp_files'
                      /\ progress_tracker' = progress_tracker
                      /\ active_connections' = active_connections]_vars

\* The run whose draft /finish/ was given.
FinishedRun == CHOOSE s \in MediaSessions : runs[s].pc = "finishing"

\* C37: the audio node finish attaches to a draft is the audio synthesized by the run
\* that produced the draft: never the audio of another run, and no audio node for a
\* run whose TTS stage failed.
C37_AudioOfOwnRun ==
    finish_outcomes.called
       => /\ AudioAttached => finish_outcomes.audio_path[3] = FinishedRun
          /\ runs[FinishedRun].audio_path = <<>> => ~AudioAttached

\* C38: when a message exchange on the chat streaming channel is over, with complete or
\* with error, the session holds the user entry of the exchange and an assistant entry
\* that answers it.
C38_StreamTurnLeavesPair ==
    [][WsTurnEnds
         => Roles(EntriesOfTurn(added'[ws_turn.session_id], ws_turn.n))
               = <<"user", "assistant">>]_vars

\* C39: a chat session's context cache, when it is not empty, holds the context of the
\* lesson the session was created for, whichever channel filled it and whichever
\* lesson id the message named.
C39_CacheIsOfSessionLesson ==
    \A sid \in DOMAIN sessions :
        sessions[sid].context_cache # <<>>
           => sessions[sid].context_cache.lesson = sessions[sid].lesson_id

====
